---- MODULE Spec2Model ----
(***************************************************************************)
(* A model of the property-management REST backend: the route handlers of  *)
(* routes/properties.js, routes/tenants.js, routes/rentSchedules.js and    *)
(* routes/payments.js acting on the Mongoose collections User, Property,   *)
(* RentSchedule and Payment.                                               *)
(*                                                                         *)
(* Every handler is one action taking the authenticated principal and the  *)
(* request's parameters; it writes the store and records the response in   *)
(* the variable last.  The handlers whose awaits matter (two requests      *)
(* racing on one document) are modelled a second time, one action per      *)
(* await, further below.                                                   *)
(***************************************************************************)
EXTENDS Integers, Sequences, FiniteSets, TLC

VARIABLES
    users,       \* the User collection: id -> [role, moveInDate, leaseEndDate]
    properties,  \* the Property collection: id -> document
    propCount,   \* number of property ids handed out so far (ids are never reused)
    schedules,   \* the RentSchedule collection: id -> document
    schedCount,  \* number of rent schedule ids handed out so far
    payments,    \* the Payment collection, in insertion order
    last,        \* the request handled last and its response
    reqs         \* the in-flight requests of the interleaved handlers

vars == <<users, properties, propCount, schedules, schedCount, payments, last, reqs>>

(***************************************************************************)
(* Bounds of the model.                                                    *)
(***************************************************************************)
MaxProps == 1

MaxDate == 1

MaxSchedules == 2

MaxAmount == 2

(***************************************************************************)
(* Values.                                                                 *)
(***************************************************************************)
\* null / undefined in a document or a request
None == "none"

\* a field the request body does not carry
Absent == "absent"

\* a null Date; `if (moveInDate)` tests for it
NoDate == 0

\* an id parameter that is empty or no ObjectId: isMongoId fails on it,
\* findById throws CastError on it, and as a query filter it is falsy
BadId == 0

\* a well-formed user id that resolves to no document
Ghost == "u9"

\* a request that carries no valid token
Anon == "anon"

Admins == {"a1"}

Landlords == {"l1", "l2"}

Tenants == {"t1", "t2"}

UserIds == Admins \cup Landlords \cup Tenants

Principals == UserIds \cup {Anon}

Roles == {"admin", "landlord", "tenant"}

PropertyStatuses == {"available", "occupied", "maintenance", "unavailable"}

Dates == 1..MaxDate

PropIds == 1..MaxProps

\* the property ids a request may name: malformed, existing, or unknown
PropIdInputs == 0..(MaxProps + 1)

NoLease == [startDate |-> NoDate, endDate |-> NoDate]

(***************************************************************************)
(* The collaborators of the handlers.                                      *)
(***************************************************************************)
\* req.user.role of an authenticated principal
Role(u) == IF u \in DOMAIN users THEN users[u].role ELSE None

\* middleware auth: the request carries a token that resolves to a user
auth(u) == u \in DOMAIN users

\* middleware authorize(...roles)
authorize(u, roles) == Role(u) \in roles

\* `!tenant || tenant.role !== 'tenant'`, negated
IsTenant(id) == id \in DOMAIN users /\ users[id].role = "tenant"

\* the ownership check left out: a landlord is never denied
LandlordNeverDenied(u, property) == FALSE

\* `req.user.role === 'landlord' && property.landlord.toString() !== req.user._id.toString()`
LandlordDenied(u, property) == Role(u) = "landlord" /\ property.landlord # u

\* the response recorded for a request: the operation, the principal, the
\* tenant, property and rent schedule the request names, the outcome, and the
\* ids a list returns
Reply(op, u, tenantId, propertyId, kind) ==
    [op |-> op, user |-> u, tenant |-> tenantId, property |-> propertyId,
     schedule |-> BadId, kind |-> kind, items |-> {}]

(***************************************************************************)
(* routes/tenants.js: POST /api/tenants/:id/assign-property                *)
(***************************************************************************)
\* the status check weakened: only an occupied property is refused
AssignableUnlessOccupied(property) == property.status # "occupied"

\* `property.status !== 'available'`, negated
Assignable(property) == property.status = "available"

\* the document as assign-property saves it
Assigned(property, tenantId, moveInDate, leaseEndDate) ==
    [property EXCEPT
        !.currentTenant = tenantId,
        !.status = "occupied",
        !.leaseTerms = [startDate |-> IF moveInDate # NoDate THEN moveInDate ELSE @.startDate,
                        endDate |-> IF leaseEndDate # NoDate THEN leaseEndDate ELSE @.endDate]]

\* tenantUpdates, applied to the tenant's tenantInfo
Mirrored(user, moveInDate, leaseEndDate) ==
    [user EXCEPT
        !.moveInDate = IF moveInDate # NoDate THEN moveInDate ELSE @,
        !.leaseEndDate = IF leaseEndDate # NoDate THEN leaseEndDate ELSE @]

AssignProperty(u, tenantId, propertyId, moveInDate, leaseEndDate) ==
    LET reply(kind) == Reply("assignProperty", u, tenantId, propertyId, kind)
        fail(kind) == last' = reply(kind) /\ UNCHANGED <<users, properties>>
    IN  /\ UNCHANGED <<propCount, schedules, schedCount, payments, reqs>>
        /\ IF ~auth(u) THEN fail("Unauthorized")
           ELSE IF ~authorize(u, {"admin", "landlord"}) THEN fail("Forbidden")
           ELSE IF propertyId = BadId THEN fail("ValidationFailed")
           ELSE IF ~IsTenant(tenantId) THEN fail("NotFound")
           ELSE IF propertyId \notin DOMAIN properties THEN fail("NotFound")
           ELSE IF LandlordDenied(u, properties[propertyId]) THEN fail("Forbidden")
           ELSE IF ~Assignable(properties[propertyId]) THEN fail("InvalidState")
           ELSE /\ properties' = [properties EXCEPT ![propertyId] =
                                    Assigned(@, tenantId, moveInDate, leaseEndDate)]
                /\ users' = [users EXCEPT ![tenantId] =
                                    Mirrored(@, moveInDate, leaseEndDate)]
                /\ last' = reply("Ok")

(***************************************************************************)
(* routes/tenants.js: POST /api/tenants/:id/remove-property                *)
(***************************************************************************)
\* the tenant check letting an empty currentTenant pass
IsCurrentTenantOrEmpty(property, tenantId) ==
    property.currentTenant \in {tenantId, None}

\* `property.currentTenant?.toString() !== tenantId`, negated
IsCurrentTenant(property, tenantId) == property.currentTenant = tenantId

\* remove-property forgetting to clear the tenant reference
VacatedKeepingTenant(property) ==
    [property EXCEPT !.status = "available", !.leaseTerms = NoLease]

\* the document as remove-property saves it
Vacated(property) ==
    [property EXCEPT !.currentTenant = None, !.status = "available", !.leaseTerms = NoLease]

RemoveProperty(u, tenantId, propertyId) ==
    LET reply(kind) == Reply("removeProperty", u, tenantId, propertyId, kind)
        fail(kind) == last' = reply(kind) /\ UNCHANGED properties
    IN  /\ UNCHANGED <<users, propCount, schedules, schedCount, payments, reqs>>
        /\ IF ~auth(u) THEN fail("Unauthorized")
           ELSE IF ~authorize(u, {"admin", "landlord"}) THEN fail("Forbidden")
           ELSE IF propertyId = BadId THEN fail("ValidationFailed")
           ELSE IF ~IsTenant(tenantId) THEN fail("NotFound")
           ELSE IF propertyId \notin DOMAIN properties THEN fail("NotFound")
           ELSE IF LandlordDenied(u, properties[propertyId]) THEN fail("Forbidden")
           ELSE IF ~IsCurrentTenant(properties[propertyId], tenantId) THEN fail("InvalidState")
           ELSE /\ properties' = [properties EXCEPT ![propertyId] = Vacated(@)]
                /\ last' = reply("Ok")

(***************************************************************************)
(* routes/properties.js: POST, PUT /:id and DELETE /:id of /api/properties *)
(***************************************************************************)
\* the request bodies of POST and PUT: the fields of the Property schema a
\* body may carry, each possibly absent ("bogus" is a status outside the enum)
PropertyBodies ==
    [status : {Absent, "bogus"} \cup PropertyStatuses,
     currentTenant : {Absent, "t1"},
     landlord : {Absent, "l2"}]

\* `landlord: req.user.role === 'landlord' ? req.user._id : req.body.landlord`
CreatedLandlord(u, body) == IF Role(u) = "landlord" THEN u ELSE body.landlord

\* new Property(propertyData), with the schema's defaults
NewProperty(u, body) ==
    [landlord |-> CreatedLandlord(u, body),
     currentTenant |-> IF body.currentTenant = Absent THEN None ELSE body.currentTenant,
     status |-> IF body.status = Absent THEN "available" ELSE body.status,
     leaseTerms |-> NoLease, maintenanceHistory |-> << >>]

\* the schema's validators, run by save(): landlord required, status in the enum
SchemaValid(property) ==
    property.landlord # Absent /\ property.status \in PropertyStatuses

CreateProperty(u, valid, body) ==
    LET id == propCount + 1
        fail(kind) == /\ last' = Reply("createProperty", u, None, BadId, kind)
                      /\ UNCHANGED <<properties, propCount>>
    IN  /\ propCount < MaxProps
        /\ UNCHANGED <<users, schedules, schedCount, payments, reqs>>
        /\ IF ~auth(u) THEN fail("Unauthorized")
           ELSE IF ~authorize(u, {"admin", "landlord"}) THEN fail("Forbidden")
           ELSE IF ~valid THEN fail("ValidationFailed")
           ELSE IF ~SchemaValid(NewProperty(u, body)) THEN fail("ServerError")
           ELSE /\ properties' = (id :> NewProperty(u, body)) @@ properties
                /\ propCount' = id
                /\ last' = Reply("createProperty", u, None, id, "Ok")

\* findByIdAndUpdate(id, req.body): every field the body carries is set
Updated(property, body) ==
    [property EXCEPT
        !.status = IF body.status = Absent THEN @ ELSE body.status,
        !.currentTenant = IF body.currentTenant = Absent THEN @ ELSE body.currentTenant,
        !.landlord = IF body.landlord = Absent THEN @ ELSE body.landlord]

\* the same for the maintenanceHistory of a body that carries one: the stored
\* array is replaced as a whole
UpdatedHistory(property, body) ==
    IF "maintenanceHistory" \in DOMAIN body
    THEN [property EXCEPT !.maintenanceHistory = body.maintenanceHistory]
    ELSE property

UpdateProperty(u, id, body) ==
    LET reply(kind) == Reply("updateProperty", u, None, id, kind)
        fail(kind) == last' = reply(kind) /\ UNCHANGED properties
    IN  /\ UNCHANGED <<users, propCount, schedules, schedCount, payments, reqs>>
        /\ IF ~auth(u) THEN fail("Unauthorized")
           ELSE IF body.status \notin {Absent} \cup PropertyStatuses THEN fail("ValidationFailed")
           ELSE IF id = BadId THEN fail("ServerError")
           ELSE IF id \notin DOMAIN properties THEN fail("NotFound")
           ELSE IF LandlordDenied(u, properties[id]) THEN fail("Forbidden")
           ELSE /\ properties' = [properties EXCEPT ![id] = UpdatedHistory(Updated(@, body), body)]
                /\ last' = reply("Ok")

\* DELETE /:id routed without the auth middleware
DeletePropertyNoAuth(u, id) ==
    LET reply(kind) == Reply("deleteProperty", u, None, id, kind)
        fail(kind) == last' = reply(kind) /\ UNCHANGED properties
    IN  /\ UNCHANGED <<users, propCount, schedules, schedCount, payments, reqs>>
        /\ IF id = BadId THEN fail("ServerError")
           ELSE IF id \notin DOMAIN properties THEN fail("NotFound")
           ELSE IF LandlordDenied(u, properties[id]) THEN fail("Forbidden")
           ELSE /\ properties' = [p \in DOMAIN properties \ {id} |-> properties[p]]
                /\ last' = reply("Ok")

DeleteProperty(u, id) ==
    LET reply(kind) == Reply("deleteProperty", u, None, id, kind)
        fail(kind) == last' = reply(kind) /\ UNCHANGED properties
    IN  /\ UNCHANGED <<users, propCount, schedules, schedCount, payments, reqs>>
        /\ IF ~auth(u) THEN fail("Unauthorized")
           ELSE IF id = BadId THEN fail("ServerError")
           ELSE IF id \notin DOMAIN properties THEN fail("NotFound")
           ELSE IF LandlordDenied(u, properties[id]) THEN fail("Forbidden")
           ELSE /\ properties' = [p \in DOMAIN properties \ {id} |-> properties[p]]
                /\ last' = reply("Ok")

(***************************************************************************)
(* routes/tenants.js: PUT /api/tenants/:id                                 *)
(***************************************************************************)
\* the request bodies: fields of the User schema a body may carry.  When the
\* body carries tenantInfo, $set replaces the embedded object as a whole.
TenantBodies ==
    [role : {Absent, "admin"},
     hasTenantInfo : BOOLEAN,
     moveInDate : {MaxDate},
     leaseEndDate : {NoDate}]

\* the landlord's access to a tenant granted without looking at the properties
HasAccessAlways(u, id) == TRUE

\* `Property.exists({ landlord: req.user._id, currentTenant: req.params.id })`
HasAccess(u, id) ==
    \E p \in DOMAIN properties :
        properties[p].landlord = u /\ properties[p].currentTenant = id

\* User.findByIdAndUpdate(req.params.id, req.body)
UpdatedUser(user, body) ==
    [role |-> IF body.role = Absent THEN user.role ELSE body.role,
     moveInDate |-> IF body.hasTenantInfo THEN body.moveInDate ELSE user.moveInDate,
     leaseEndDate |-> IF body.hasTenantInfo THEN body.leaseEndDate ELSE user.leaseEndDate]

UpdateTenant(u, id, body) ==
    LET reply(kind) == Reply("updateTenant", u, id, BadId, kind)
        fail(kind) == last' = reply(kind) /\ UNCHANGED users
    IN  /\ UNCHANGED <<properties, propCount, schedules, schedCount, payments, reqs>>
        /\ IF ~auth(u) THEN fail("Unauthorized")
           ELSE IF ~IsTenant(id) THEN fail("NotFound")
           ELSE IF Role(u) = "tenant" /\ u # id THEN fail("Forbidden")
           ELSE IF Role(u) = "landlord" /\ ~HasAccess(u, id) THEN fail("Forbidden")
           ELSE /\ users' = [users EXCEPT ![id] = UpdatedUser(@, body)]
                /\ last' = reply("Ok")

(***************************************************************************)
(* routes/tenants.js: GET /api/tenants/:id                                 *)
(***************************************************************************)
GetTenant(u, id) ==
    LET reply(kind) == Reply("getTenant", u, id, BadId, kind)
    IN  /\ UNCHANGED <<users, properties, propCount, schedules, schedCount, payments, reqs>>
        /\ last' = IF ~auth(u) THEN reply("Unauthorized")
                   ELSE IF ~IsTenant(id) THEN reply("NotFound")
                   ELSE IF Role(u) = "tenant" /\ u # id THEN reply("Forbidden")
                   ELSE IF Role(u) = "landlord" /\ ~HasAccess(u, id) THEN reply("Forbidden")
                   ELSE reply("Ok")

(***************************************************************************)
(* The store after construction, and the sequential system: one request    *)
(* at a time, each handled to completion.                                  *)
(***************************************************************************)
InitialRole(u) ==
    IF u \in Admins THEN "admin" ELSE IF u \in Landlords THEN "landlord" ELSE "tenant"

InitialUsers ==
    [u \in UserIds |-> [role |-> InitialRole(u), moveInDate |-> NoDate, leaseEndDate |-> NoDate]]

NoRequest == Reply("none", Anon, None, BadId, "none")

Init ==
    /\ users = InitialUsers
    /\ properties = << >>
    /\ propCount = 0
    /\ schedules = << >>
    /\ schedCount = 0
    /\ payments = << >>
    /\ last = NoRequest
    /\ reqs = << >>

\* the principals that send requests
Callers == {"a1", "l1", "l2", "t1", Anon}

\* the tenant ids a request may name: two tenants and an unknown id
TenantIdInputs == Tenants \cup {Ghost}

LeaseDates == {NoDate} \cup Dates

\* the (moveInDate, leaseEndDate) pairs of the assign requests of Spec: none,
\* or both dates
LeasePairs == {<<NoDate, NoDate>>} \cup {<<d, MaxDate>> : d \in Dates}

\* a body that passes the schema
PlainBody == [status |-> Absent, currentTenant |-> Absent, landlord |-> "l2"]

\* the property ids a request may name that resolve to nothing
UnknownProps == {BadId, MaxProps + 1}

Next ==
    \/ \E u \in Callers, body \in PropertyBodies : CreateProperty(u, TRUE, body)
    \/ \E u \in Callers : CreateProperty(u, FALSE, PlainBody)
    \/ \E u \in Callers, id \in PropIds, body \in PropertyBodies :
          UpdateProperty(u, id, body)
    \/ \E u \in Callers, id \in UnknownProps : UpdateProperty(u, id, PlainBody)
    \/ \E u \in Callers, id \in PropIdInputs : DeleteProperty(u, id)
    \/ \E u \in Callers, t \in TenantIdInputs, p \in PropIdInputs, d \in LeasePairs :
          AssignProperty(u, t, p, d[1], d[2])
    \/ \E u \in Callers, t \in TenantIdInputs, p \in PropIdInputs :
          RemoveProperty(u, t, p)

Spec == Init /\ [][Next]_vars

(***************************************************************************)
(* Claims about the property store, checked under Spec.                    *)
(***************************************************************************)
\* the documents of the collection
Stored == {properties[p] : p \in DOMAIN properties}

\* C2: in every reachable state, under all operations (creation and the
\* generic property update included), a property is occupied if and only if
\* its currentTenant is set, and an available property has no currentTenant.
C2_OccupiedIffTenant ==
    \A property \in Stored :
        /\ property.status = "occupied" <=> property.currentTenant # None
        /\ property.status = "available" => property.currentTenant = None

\* C2, where the code departs from the claim: a successful generic update has
\* left a property occupied with no tenant, or with a tenant and not occupied
C2_UpdateBreaksOccupancy ==
    /\ last.op = "updateProperty"
    /\ last.kind = "Ok"
    /\ last.property \in DOMAIN properties
    /\ (properties[last.property].status = "occupied")
            # (properties[last.property].currentTenant # None)

\* the request bodies that pass the validators of PUT /api/properties/:id
ValidPropertyBodies == {body \in PropertyBodies : body.status # "bogus"}

\* the outcome C4 and C5 state: Forbidden, every property as it was
DeniedUnchanged == last'.kind = "Forbidden" /\ properties' = properties

\* C4: a PUT or DELETE of a property by a tenant principal, for every
\* property (assigned to that tenant or not), is denied with Forbidden and
\* leaves the property unchanged and present.
C4_TenantCannotWrite ==
    [][(/\ last'.op \in {"updateProperty", "deleteProperty"}
        /\ Role(last'.user) = "tenant"
        /\ last'.property \in DOMAIN properties)
          => /\ \A body \in ValidPropertyBodies :
                    UpdateProperty(last'.user, last'.property, body) => DeniedUnchanged
             /\ DeleteProperty(last'.user, last'.property) => DeniedUnchanged]_vars

\* C4, where the code departs from the claim: a tenant has deleted a property
C4_TenantDeleted ==
    /\ last.op = "deleteProperty"
    /\ Role(last.user) = "tenant"
    /\ last.kind = "Ok"
    /\ last.property \notin DOMAIN properties

\* C5: a landlord updating or deleting a property whose landlord is another
\* user always receives Forbidden, and the property is left unchanged (all
\* fields) and still present in the store.
C5_ForeignLandlordDenied ==
    [][(/\ last'.op \in {"updateProperty", "deleteProperty"}
        /\ Role(last'.user) = "landlord"
        /\ last'.property \in DOMAIN properties
        /\ properties[last'.property].landlord # last'.user)
          => /\ \A body \in ValidPropertyBodies :
                    UpdateProperty(last'.user, last'.property, body) => DeniedUnchanged
             /\ DeleteProperty(last'.user, last'.property) => DeniedUnchanged]_vars

\* C5's case: a landlord has been denied the delete of another landlord's
\* property, which is still in the store
C5_Witness ==
    /\ last.op = "deleteProperty"
    /\ last.kind = "Forbidden"
    /\ Role(last.user) = "landlord"
    /\ last.property \in DOMAIN properties
    /\ properties[last.property].landlord \in Landlords \ {last.user}

\* the principal passes authorize('admin', 'landlord') and the ownership check
MayManage(u, property) ==
    Role(u) = "admin" \/ (Role(u) = "landlord" /\ property.landlord = u)

\* C10 as stated: assign-tenant by an authenticated principal on a property
\* whose status is not available always fails with InvalidState, and leaves
\* the property's status, currentTenant and leaseTerms and the tenant's
\* profile lease dates unchanged.
C10_AlwaysInvalidState ==
    [][(/\ last'.op = "assignProperty"
        /\ auth(last'.user)
        /\ last'.property \in DOMAIN properties
        /\ properties[last'.property].status # "available")
          => /\ last'.kind = "InvalidState"
             /\ properties' = properties
             /\ users' = users]_vars

\* C10, amended: assign-tenant on a property whose status is not available
\* never succeeds and leaves the property's status, currentTenant and
\* leaseTerms and the tenant's profile lease dates unchanged; the failure is
\* InvalidState whenever the principal is an admin or the property's landlord
\* and the tenant id resolves to a tenant (the checks of the principal and of
\* the tenant come first and answer Forbidden and NotFound).
C10_AssignNeedsAvailable ==
    [][(/\ last'.op = "assignProperty"
        /\ last'.property \in DOMAIN properties
        /\ properties[last'.property].status # "available")
          => /\ last'.kind # "Ok"
             /\ properties' = properties
             /\ users' = users
             /\ (MayManage(last'.user, properties[last'.property]) /\ IsTenant(last'.tenant))
                    => last'.kind = "InvalidState"]_vars

\* C10's case: an assignment to a property under maintenance has been refused
C10_Witness ==
    /\ last.op = "assignProperty"
    /\ last.kind = "InvalidState"
    /\ last.property \in DOMAIN properties
    /\ properties[last.property].status = "maintenance"

\* C11 as stated: remove-tenant by an authenticated principal with a tenant id
\* different from the property's currentTenant (an empty currentTenant
\* included) always fails with InvalidState and leaves the property's
\* status, currentTenant and leaseTerms unchanged.
C11_AlwaysInvalidState ==
    [][(/\ last'.op = "removeProperty"
        /\ auth(last'.user)
        /\ last'.property \in DOMAIN properties
        /\ properties[last'.property].currentTenant # last'.tenant)
          => /\ last'.kind = "InvalidState"
             /\ properties' = properties]_vars

\* C11, amended: remove-tenant with a tenant id different from the
\* property's currentTenant (an empty currentTenant included) never succeeds
\* and leaves the property's status, currentTenant and leaseTerms unchanged;
\* the failure is InvalidState whenever the principal is an admin or the
\* property's landlord and the tenant id resolves to a tenant (the checks of
\* the principal and of the tenant come first and answer Forbidden and
\* NotFound).
C11_RemoveNeedsCurrentTenant ==
    [][(/\ last'.op = "removeProperty"
        /\ last'.property \in DOMAIN properties
        /\ properties[last'.property].currentTenant # last'.tenant)
          => /\ last'.kind # "Ok"
             /\ properties' = properties
             /\ (MayManage(last'.user, properties[last'.property]) /\ IsTenant(last'.tenant))
                    => last'.kind = "InvalidState"]_vars

\* C11's case: the removal of a tenant from a property that has no
\* currentTenant has been refused
C11_Witness ==
    /\ last.op = "removeProperty"
    /\ last.kind = "InvalidState"
    /\ last.property \in DOMAIN properties
    /\ properties[last.property].currentTenant = None
    /\ IsTenant(last.tenant)

(***************************************************************************)
(* The occupancy state machine alone: assign-tenant and remove-tenant on   *)
(* properties that start available with no tenant.                         *)
(***************************************************************************)
\* a property as POST /api/properties creates it for a landlord
FreshProperty(landlord) ==
    [landlord |-> landlord, currentTenant |-> None, status |-> "available",
     leaseTerms |-> NoLease, maintenanceHistory |-> << >>]

InitOccupancy ==
    /\ users = InitialUsers
    /\ properties \in [PropIds -> {FreshProperty(l) : l \in Landlords}]
    /\ propCount = MaxProps
    /\ schedules = << >>
    /\ schedCount = 0
    /\ payments = << >>
    /\ last = NoRequest
    /\ reqs = << >>

\* the (moveInDate, leaseEndDate) pairs of the assign requests of
\* SpecOccupancy: none, the move-in date alone, or both dates
OccupancyLeasePairs == LeasePairs \cup {<<d, NoDate>> : d \in Dates}

NextOccupancy ==
    \/ \E u \in Callers, t \in TenantIdInputs, p \in PropIdInputs,
          d \in OccupancyLeasePairs :
          AssignProperty(u, t, p, d[1], d[2])
    \/ \E u \in Callers, t \in TenantIdInputs, p \in PropIdInputs :
          RemoveProperty(u, t, p)

SpecOccupancy == InitOccupancy /\ [][NextOccupancy]_vars

\* C1: after any sequence of assign-tenant and remove-tenant operations
\* (successful or failed) on properties that start available with no
\* currentTenant, every occupied property has a currentTenant and every
\* available property has none.
C1_OccupancyKept ==
    \A property \in Stored :
        /\ property.status = "occupied" => property.currentTenant # None
        /\ property.status = "available" => property.currentTenant = None

\* C1's case: a tenant has been assigned and removed again, and a later
\* assignment to the occupied property has failed
C1_Witness ==
    /\ last.op = "assignProperty"
    /\ last.kind = "InvalidState"
    /\ properties[last.property].status = "occupied"
    /\ properties[last.property].currentTenant \in Tenants \ {last.tenant}
    /\ users[last.tenant].moveInDate # NoDate

(***************************************************************************)
(* The tenant profile update beside the occupancy state machine.           *)
(***************************************************************************)
\* the principals of SpecTenants
TenantCallers == {"a1", "l1", "t1", "t2"}

NextTenants ==
    \/ \E u \in TenantCallers, id \in TenantIdInputs, body \in TenantBodies :
          UpdateTenant(u, id, body)
    \/ \E u \in {"a1", "l1"}, t \in TenantIdInputs, p \in PropIds, d \in LeasePairs :
          AssignProperty(u, t, p, d[1], d[2])
    \/ \E u \in {"a1", "l1"}, t \in TenantIdInputs, p \in PropIds :
          RemoveProperty(u, t, p)

SpecTenants == InitOccupancy /\ [][NextTenants]_vars

\* C9: a user's role is immutable after creation: no operation changes the
\* role of any user.
C9_RoleImmutable ==
    [][\A u \in UserIds : users'[u].role = users[u].role]_vars

\* C9, where the code departs from the claim: a tenant's own profile update
\* has made them an admin
C9_TenantBecameAdmin ==
    /\ last.op = "updateTenant"
    /\ last.kind = "Ok"
    /\ last.user = last.tenant
    /\ users[last.user].role = "admin"

(***************************************************************************)
(* POST /api/tenants/:id/assign-property once more, one action per await:  *)
(* concurrent requests interleave at the database calls.  Between two      *)
(* awaits a handler runs alone (Node runs one callback at a time).         *)
(***************************************************************************)
\* number of concurrent assign requests
NumRacers == 2

Racers == 1..NumRacers

\* the principals and (moveInDate, leaseEndDate) pairs of the racing requests
RaceCallers == {"a1", "l1", "l2"}

RaceRequests ==
    [pc : {"findTenant"}, user : RaceCallers, tenant : TenantIdInputs,
     property : PropIds, moveInDate : LeaseDates, leaseEndDate : {NoDate},
     kind : {"none"}]

InitAssignRace ==
    /\ users = InitialUsers
    /\ properties = [p \in PropIds |-> FreshProperty("l1")]
    /\ propCount = MaxProps
    /\ schedules = << >>
    /\ schedCount = 0
    /\ payments = << >>
    /\ last = NoRequest
    /\ reqs \in [Racers -> RaceRequests]

\* the handler of request r answers
Respond(r, kind) == reqs' = [reqs EXCEPT ![r].pc = "done", ![r].kind = kind]

Goto(r, pc) == reqs' = [reqs EXCEPT ![r].pc = pc]

\* `await User.findById(tenantId)` and the check that follows
AssignFindTenant(r) ==
    /\ reqs[r].pc = "findTenant"
    /\ IF ~IsTenant(reqs[r].tenant) THEN Respond(r, "NotFound")
       ELSE Goto(r, "findProperty")
    /\ UNCHANGED <<users, properties, propCount, schedules, schedCount, payments, last>>

\* `await Property.findById(propertyId)` and the checks that follow, up to the
\* call of property.save()
AssignFindProperty(r) ==
    /\ reqs[r].pc = "findProperty"
    /\ IF reqs[r].property \notin DOMAIN properties THEN Respond(r, "NotFound")
       ELSE IF LandlordDenied(reqs[r].user, properties[reqs[r].property])
            THEN Respond(r, "Forbidden")
       ELSE IF ~Assignable(properties[reqs[r].property]) THEN Respond(r, "InvalidState")
       ELSE Goto(r, "save")
    /\ UNCHANGED <<users, properties, propCount, schedules, schedCount, payments, last>>

\* `await property.save()`: the paths the handler has modified (currentTenant,
\* status, the lease dates given) are written to the stored document
AssignSave(r) ==
    /\ reqs[r].pc = "save"
    /\ properties' = [properties EXCEPT ![reqs[r].property] =
            Assigned(@, reqs[r].tenant, reqs[r].moveInDate, reqs[r].leaseEndDate)]
    /\ Goto(r, "mirror")
    /\ UNCHANGED <<users, propCount, schedules, schedCount, payments, last>>

\* `await User.findByIdAndUpdate(tenantId, tenantUpdates)`, then the response
AssignMirror(r) ==
    /\ reqs[r].pc = "mirror"
    /\ users' = [users EXCEPT ![reqs[r].tenant] =
            Mirrored(@, reqs[r].moveInDate, reqs[r].leaseEndDate)]
    /\ Respond(r, "Ok")
    /\ UNCHANGED <<properties, propCount, schedules, schedCount, payments, last>>

NextAssignRace ==
    \E r \in Racers :
        \/ AssignFindTenant(r)
        \/ AssignFindProperty(r)
        \/ AssignSave(r)
        \/ AssignMirror(r)

SpecAssignRace == InitAssignRace /\ [][NextAssignRace]_vars

\* the requests that have answered with the given kind
Answered(kind) == {r \in Racers : reqs[r].pc = "done" /\ reqs[r].kind = kind}

\* C3: when two assign-tenant requests for the same available property run
\* concurrently, at most one of them succeeds, the other fails with
\* InvalidState, and afterwards the property's currentTenant is the tenant
\* of the request that succeeded.
C3_OneAssignmentWins ==
    \A r1 \in Answered("Ok"), r2 \in Answered("Ok") \cup Answered("InvalidState") :
        (r1 # r2 /\ reqs[r1].property = reqs[r2].property)
            => /\ reqs[r2].kind = "InvalidState"
               /\ properties[reqs[r1].property].currentTenant = reqs[r1].tenant

\* C3, where the code departs from the claim: two requests for different
\* tenants have both succeeded
C3_BothAssigned ==
    \E r1, r2 \in Answered("Ok") :
        /\ reqs[r1].property = reqs[r2].property
        /\ reqs[r1].tenant # reqs[r2].tenant

(***************************************************************************)
(* routes/rentSchedules.js: POST / and DELETE /:id of /api/rent-schedules  *)
(***************************************************************************)
RentStatuses == {"pending", "paid", "overdue", "partial"}

SchedIds == 1..MaxSchedules

\* the rent schedule ids a request may name: malformed, existing, or unknown
SchedIdInputs == 0..(MaxSchedules + 1)

\* the request bodies of POST /api/rent-schedules: the fields of the
\* RentSchedule schema a body may carry; a lateFee of 0 stands for a body
\* without the field too, which the schema's default makes 0
ScheduleBodies ==
    [property : PropIdInputs, tenant : Tenants, amount : {-1, MaxAmount},
     dueDate : Dates, status : {Absent, "paid"}, lateFee : {0, -1}]

\* new RentSchedule({ property, tenant, ...scheduleData }), with the schema's
\* defaults
NewSchedule(body) ==
    [property |-> body.property, tenant |-> body.tenant, amount |-> body.amount,
     dueDate |-> body.dueDate,
     status |-> IF body.status = Absent THEN "pending" ELSE body.status,
     lateFee |-> body.lateFee]

\* the schema's validators, run by save(): amount has min 0, status is in the enum
ScheduleSchemaValid(schedule) ==
    schedule.amount >= 0 /\ schedule.status \in RentStatuses

\* the reply to a request that names a rent schedule
ScheduleReply(op, u, id, kind) ==
    [Reply(op, u, None, BadId, kind) EXCEPT !.schedule = id]

CreateRentSchedule(u, body) ==
    LET id == schedCount + 1
        fail(kind) == /\ last' = Reply("createRentSchedule", u, body.tenant, body.property, kind)
                      /\ UNCHANGED <<schedules, schedCount>>
    IN  /\ schedCount < MaxSchedules
        /\ UNCHANGED <<users, properties, propCount, payments, reqs>>
        /\ IF ~auth(u) THEN fail("Unauthorized")
           ELSE IF ~authorize(u, {"admin", "landlord"}) THEN fail("Forbidden")
           ELSE IF body.property = BadId THEN fail("ValidationFailed")
           ELSE IF body.property \notin DOMAIN properties THEN fail("NotFound")
           ELSE IF LandlordDenied(u, properties[body.property]) THEN fail("Forbidden")
           ELSE IF ~ScheduleSchemaValid(NewSchedule(body)) THEN fail("ServerError")
           ELSE /\ schedules' = (id :> NewSchedule(body)) @@ schedules
                /\ schedCount' = id
                /\ last' = [Reply("createRentSchedule", u, body.tenant, body.property, "Ok")
                                EXCEPT !.schedule = id]

\* `.populate('property', 'landlord')`: the property document, or null when
\* the reference resolves to nothing
Populated(schedule) ==
    IF schedule.property \in DOMAIN properties
    THEN properties[schedule.property]
    ELSE [landlord |-> None]

\* `rentSchedule.property.landlord` throws when populate left null
PopulateIsNull(schedule) == schedule.property \notin DOMAIN properties

DeleteRentSchedule(u, id) ==
    LET reply(kind) == ScheduleReply("deleteRentSchedule", u, id, kind)
        fail(kind) == last' = reply(kind) /\ UNCHANGED schedules
    IN  /\ UNCHANGED <<users, properties, propCount, schedCount, payments, reqs>>
        /\ IF ~auth(u) THEN fail("Unauthorized")
           ELSE IF id = BadId THEN fail("ServerError")
           ELSE IF id \notin DOMAIN schedules THEN fail("NotFound")
           ELSE IF Role(u) = "landlord" /\ PopulateIsNull(schedules[id])
                THEN fail("ServerError")
           ELSE IF LandlordDenied(u, Populated(schedules[id])) THEN fail("Forbidden")
           ELSE /\ schedules' = [x \in DOMAIN schedules \ {id} |-> schedules[x]]
                /\ last' = reply("Ok")

NextRent ==
    \/ \E u \in Callers, body \in ScheduleBodies : CreateRentSchedule(u, body)
    \/ \E u \in Callers, id \in SchedIdInputs : DeleteRentSchedule(u, id)

SpecRent == InitOccupancy /\ [][NextRent]_vars

\* C8: a DELETE of a rent schedule by a tenant principal is always denied
\* with Forbidden, and the schedule remains in the store unchanged.
C8_TenantCannotDeleteSchedule ==
    [][(/\ last'.op = "deleteRentSchedule"
        /\ Role(last'.user) = "tenant"
        /\ last'.schedule \in DOMAIN schedules)
          => (last'.kind = "Forbidden" /\ schedules' = schedules)]_vars

\* C8, where the code departs from the claim: a tenant has deleted a rent
\* schedule
C8_TenantDeletedSchedule ==
    /\ last.op = "deleteRentSchedule"
    /\ Role(last.user) = "tenant"
    /\ last.kind = "Ok"
    /\ last.schedule \notin DOMAIN schedules

(***************************************************************************)
(* routes/rentSchedules.js and routes/payments.js: the list queries        *)
(* GET /api/rent-schedules and GET /api/payments.                          *)
(***************************************************************************)
\* `limit = 10`, the page size when the query names none
DefaultLimit == 10

\* every value of a tenant or property field: the selector of a query that
\* does not constrain the field
AnyTenant == UserIds \cup {Ghost}

AnyProperty == PropIdInputs

\* `Property.find({ landlord: req.user._id })`, mapped to the ids
OwnedProperties(u) == {p \in DOMAIN properties : properties[p].landlord = u}

\* the role-based part of the query of GET /api/rent-schedules
RentScheduleScope(u) ==
    IF Role(u) = "tenant" THEN [tenant |-> {u}, property |-> AnyProperty]
    ELSE IF Role(u) = "landlord" THEN [tenant |-> AnyTenant, property |-> OwnedProperties(u)]
    ELSE [tenant |-> AnyTenant, property |-> AnyProperty]

\* the tenantId filter applied without the admin check
RentScheduleQueryAnyRole(u, f) ==
    LET scope == RentScheduleScope(u)
    IN  [tenant |-> IF f.tenantId # Absent THEN {f.tenantId} ELSE scope.tenant,
         property |-> IF f.propertyId # BadId THEN {f.propertyId} ELSE scope.property,
         status |-> f.status,
         from |-> f.from,
         to |-> f.to]

\* the query of GET /api/rent-schedules: the role-based part, then the
\* filters, each assigned over what the query holds for the field
RentScheduleQuery(u, f) ==
    LET scope == RentScheduleScope(u)
    IN  [tenant |-> IF f.tenantId # Absent /\ Role(u) = "admin"
                    THEN {f.tenantId} ELSE scope.tenant,
         property |-> IF f.propertyId # BadId THEN {f.propertyId} ELSE scope.property,
         status |-> f.status,
         from |-> f.from,
         to |-> f.to]

\* a rent schedule matches the query
RentScheduleMatches(schedule, q) ==
    /\ schedule.tenant \in q.tenant
    /\ schedule.property \in q.property
    /\ q.status # Absent => schedule.status = q.status
    /\ q.from # NoDate => schedule.dueDate >= q.from
    /\ q.to # NoDate => schedule.dueDate <= q.to

\* `.limit(limit * 1).skip((page - 1) * limit)`: the document with `rank`
\* documents before it in the sort order is on the page
InPage(rank, page, limit) == (page - 1) * limit <= rank /\ rank < page * limit

\* `.sort({ dueDate: 1 })`, equal dates in id order
DueBefore(x, y) ==
    \/ schedules[x].dueDate < schedules[y].dueDate
    \/ schedules[x].dueDate = schedules[y].dueDate /\ x < y

\* the ids GET /api/rent-schedules returns
RentScheduleList(u, f, page, limit) ==
    LET matches == {x \in DOMAIN schedules :
                        RentScheduleMatches(schedules[x], RentScheduleQuery(u, f))}
    IN  {x \in matches :
            InPage(Cardinality({y \in matches : DueBefore(y, x)}), page, limit)}

ListRentSchedules(u, f, page, limit) ==
    /\ UNCHANGED <<users, properties, propCount, schedules, schedCount, payments, reqs>>
    /\ IF ~auth(u) THEN last' = Reply("listRentSchedules", u, None, BadId, "Unauthorized")
       ELSE last' = [Reply("listRentSchedules", u, None, BadId, "Ok")
                        EXCEPT !.items = RentScheduleList(u, f, page, limit)]

\* the role-based part of the query of GET /api/payments
PaymentScope(u) ==
    IF Role(u) = "tenant" THEN [tenant |-> {u}, property |-> AnyProperty]
    ELSE IF Role(u) = "landlord" THEN [tenant |-> AnyTenant, property |-> OwnedProperties(u)]
    ELSE [tenant |-> AnyTenant, property |-> AnyProperty]

\* the query of GET /api/payments
PaymentQuery(u, f) ==
    LET scope == PaymentScope(u)
    IN  [tenant |-> IF f.tenantId # Absent /\ Role(u) = "admin"
                    THEN {f.tenantId} ELSE scope.tenant,
         property |-> IF f.propertyId # BadId THEN {f.propertyId} ELSE scope.property,
         status |-> f.status,
         paymentMethod |-> f.paymentMethod,
         from |-> f.from,
         to |-> f.to]

PaymentMatches(payment, q) ==
    /\ payment.tenant \in q.tenant
    /\ payment.property \in q.property
    /\ q.status # Absent => payment.status = q.status
    /\ q.paymentMethod # Absent => payment.paymentMethod = q.paymentMethod
    /\ q.from # NoDate => payment.paymentDate >= q.from
    /\ q.to # NoDate => payment.paymentDate <= q.to

\* `.sort({ paymentDate: -1 })`, equal dates in insertion order
PaidBefore(x, y) ==
    \/ payments[x].paymentDate > payments[y].paymentDate
    \/ payments[x].paymentDate = payments[y].paymentDate /\ x < y

\* the ids (positions in the collection) GET /api/payments returns
PaymentList(u, f, page, limit) ==
    LET matches == {x \in DOMAIN payments :
                        PaymentMatches(payments[x], PaymentQuery(u, f))}
    IN  {x \in matches :
            InPage(Cardinality({y \in matches : PaidBefore(y, x)}), page, limit)}

ListPayments(u, f, page, limit) ==
    /\ UNCHANGED <<users, properties, propCount, schedules, schedCount, payments, reqs>>
    /\ IF ~auth(u) THEN last' = Reply("listPayments", u, None, BadId, "Unauthorized")
       ELSE last' = [Reply("listPayments", u, None, BadId, "Ok")
                        EXCEPT !.items = PaymentList(u, f, page, limit)]

(***************************************************************************)
(* The list queries over a bounded set of stores: every property has some  *)
(* landlord, every rent schedule some property, tenant and status, and     *)
(* every schedule has one payment recorded by its tenant.                  *)
(***************************************************************************)
ListedSchedules ==
    [property : PropIds, tenant : Tenants, amount : {MaxAmount}, dueDate : Dates,
     status : {"pending", "paid"}, lateFee : {0}]

\* the Payment POST /api/payments persists for a schedule
PaymentFor(id, schedule) ==
    [rentSchedule |-> id, property |-> schedule.property, tenant |-> schedule.tenant,
     amount |-> schedule.amount, paymentDate |-> schedule.dueDate,
     paymentMethod |-> IF schedule.status = "paid" THEN "online" ELSE "cash",
     status |-> "completed", transactionId |-> id]

InitList ==
    /\ users = InitialUsers
    /\ properties \in [PropIds -> {FreshProperty(l) : l \in Landlords}]
    /\ propCount = MaxProps
    /\ schedules \in [SchedIds -> ListedSchedules]
    /\ schedCount = MaxSchedules
    /\ payments = [id \in SchedIds |-> PaymentFor(id, schedules[id])]
    /\ last = NoRequest
    /\ reqs = << >>

\* the principals that list
ListCallers == {"a1", "l1", "t1", Anon}

\* the optional filters of the two list queries
DateRanges == {<<NoDate, NoDate>>, <<MaxDate, NoDate>>, <<NoDate, MaxDate>>,
               <<MaxDate + 1, NoDate>>}

ScheduleFilters ==
    {[status |-> st, propertyId |-> p, tenantId |-> t, from |-> r[1], to |-> r[2]] :
        st \in {Absent, "paid"}, p \in PropIdInputs, t \in {Absent, "t2"},
        r \in DateRanges}

PaymentFilters ==
    {[status |-> "absent", propertyId |-> f.propertyId, tenantId |-> f.tenantId,
      from |-> f.from, to |-> f.to, paymentMethod |-> m] :
        f \in ScheduleFilters, m \in {Absent, "cash"}}

\* the (page, limit) pairs of the list requests
Pagings == {<<1, DefaultLimit>>, <<2, 1>>}

NextList ==
    \/ \E u \in ListCallers, f \in ScheduleFilters, pg \in Pagings :
          ListRentSchedules(u, f, pg[1], pg[2])
    \/ \E u \in ListCallers, f \in PaymentFilters, pg \in Pagings :
          ListPayments(u, f, pg[1], pg[2])

SpecList == InitList /\ [][NextList]_vars

\* the principal is the landlord of the property a record refers to
OwnsProperty(u, p) == p \in DOMAIN properties /\ properties[p].landlord = u

NoFilters ==
    [status |-> Absent, propertyId |-> BadId, tenantId |-> Absent,
     from |-> NoDate, to |-> NoDate, paymentMethod |-> Absent]

\* C6: for a landlord principal and every combination of filters, every rent
\* schedule and every payment a list returns refers to a property whose
\* landlord is that principal; an admin with no filters receives all records.
C6_LandlordListsOwn ==
    /\ (last.op = "listRentSchedules" /\ Role(last.user) = "landlord")
          => \A x \in last.items : OwnsProperty(last.user, schedules[x].property)
    /\ (last.op = "listPayments" /\ Role(last.user) = "landlord")
          => \A x \in last.items : OwnsProperty(last.user, payments[x].property)
    /\ \A u \in Admins :
          /\ RentScheduleList(u, NoFilters, 1, DefaultLimit) = DOMAIN schedules
          /\ PaymentList(u, NoFilters, 1, DefaultLimit) = DOMAIN payments

\* C6, where the code departs from the claim: a landlord's list holds a rent
\* schedule of a property of another landlord
C6_LandlordSawForeign ==
    /\ last.op = "listRentSchedules"
    /\ last.kind = "Ok"
    /\ Role(last.user) = "landlord"
    /\ \E x \in last.items : ~OwnsProperty(last.user, schedules[x].property)

\* C7: for a tenant principal and every combination of filters, every rent
\* schedule and every payment a list returns has tenant equal to the
\* principal; a tenantId filter supplied by a non-admin principal has no
\* effect on the result.
C7_TenantListsOwn ==
    /\ (last.op = "listRentSchedules" /\ Role(last.user) = "tenant")
          => \A x \in last.items : schedules[x].tenant = last.user
    /\ (last.op = "listPayments" /\ Role(last.user) = "tenant")
          => \A x \in last.items : payments[x].tenant = last.user
    /\ \A u \in ListCallers \ Admins, pg \in Pagings :
          /\ \A f \in ScheduleFilters :
                RentScheduleList(u, f, pg[1], pg[2])
                    = RentScheduleList(u, [f EXCEPT !.tenantId = Absent], pg[1], pg[2])
          /\ \A f \in PaymentFilters :
                PaymentList(u, f, pg[1], pg[2])
                    = PaymentList(u, [f EXCEPT !.tenantId = Absent], pg[1], pg[2])

\* C7's case: a tenant has listed rent schedules, got their own, and the
\* store holds a schedule of another tenant
C7_Witness ==
    /\ last.op = "listRentSchedules"
    /\ last.kind = "Ok"
    /\ Role(last.user) = "tenant"
    /\ last.items # {}
    /\ \E x \in DOMAIN schedules : schedules[x].tenant # last.user

(***************************************************************************)
(* routes/payments.js: POST /api/payments (recordPayment).                 *)
(***************************************************************************)
\* number of payments the model records
MaxPayments == 2

\* the values `TXN_${Date.now()}_${Math.random()...}` may take
TxnIds == 1..MaxPayments

\* the amounts a request may carry
PaymentAmounts == (-1)..MaxAmount

\* `hasAccess`: an admin, the landlord of the schedule's property, or the
\* schedule's tenant
PaymentHasAccess(u, schedule) ==
    \/ Role(u) = "admin"
    \/ Populated(schedule).landlord = u
    \/ schedule.tenant = u

\* the settlement never taking a paid schedule back to partial
SettledKeepingPaid(schedule, amount) ==
    IF amount >= schedule.amount \/ (amount > 0 /\ schedule.status = "paid")
    THEN [schedule EXCEPT !.status = "paid"]
    ELSE IF amount > 0 THEN [schedule EXCEPT !.status = "partial"]
    ELSE schedule

\* the settlement comparing amounts the wrong way round
SettledReversed(schedule, amount) ==
    IF amount <= schedule.amount /\ amount > 0 THEN [schedule EXCEPT !.status = "paid"]
    ELSE IF amount > 0 THEN [schedule EXCEPT !.status = "partial"]
    ELSE schedule

\* the schedule after the status update that follows the insert
Settled(schedule, amount) ==
    IF amount >= schedule.amount THEN [schedule EXCEPT !.status = "paid"]
    ELSE IF amount > 0 THEN [schedule EXCEPT !.status = "partial"]
    ELSE schedule

\* new Payment({...}); paymentDate defaults to the time of the insert, which
\* the position in the collection stands for
NewPayment(id, schedule, amount, paymentMethod, transactionId) ==
    [rentSchedule |-> id, property |-> schedule.property, tenant |-> schedule.tenant,
     amount |-> amount, paymentDate |-> Len(payments) + 1,
     paymentMethod |-> paymentMethod, status |-> "completed",
     transactionId |-> transactionId]

\* the schema's validators, run by save(): amount has min 0
PaymentSchemaValid(payment) == payment.amount >= 0

\* the collection without its unique index: every insert is accepted
TransactionIdUnchecked(transactionId) == TRUE

\* the unique index on transactionId accepts the insert
TransactionIdFree(transactionId) ==
    \A x \in DOMAIN payments : payments[x].transactionId # transactionId

\* POST /api/payments.  transactionId is the generated id; updateFails says
\* that the store fails at the status update that follows the insert.
CreatePayment(u, id, amount, paymentMethod, transactionId, updateFails) ==
    LET reply(kind) == ScheduleReply("createPayment", u, id, kind)
        fail(kind) == last' = reply(kind) /\ UNCHANGED <<schedules, payments>>
        payment == NewPayment(id, schedules[id], amount, paymentMethod, transactionId)
    IN  /\ Len(payments) < MaxPayments
        /\ UNCHANGED <<users, properties, propCount, schedCount, reqs>>
        /\ IF ~auth(u) THEN fail("Unauthorized")
           ELSE IF id = BadId \/ paymentMethod = "bogus" THEN fail("ValidationFailed")
           ELSE IF id \notin DOMAIN schedules THEN fail("NotFound")
           ELSE IF PopulateIsNull(schedules[id]) THEN fail("ServerError")
           ELSE IF ~PaymentHasAccess(u, schedules[id]) THEN fail("Forbidden")
           ELSE IF ~PaymentSchemaValid(payment) THEN fail("ServerError")
           ELSE IF ~TransactionIdFree(transactionId) THEN fail("ServerError")
           ELSE /\ payments' = Append(payments, payment)
                /\ IF updateFails /\ amount > 0
                   THEN last' = reply("ServerError") /\ UNCHANGED schedules
                   ELSE /\ schedules' = [schedules EXCEPT ![id] = Settled(@, amount)]
                        /\ last' = reply("Ok")

(***************************************************************************)
(* recordPayment on stored rent schedules, one request at a time.  The     *)
(* property of a schedule may be deleted meanwhile (DELETE                 *)
(* /api/properties/:id does not touch the schedules).                      *)
(***************************************************************************)
\* the status a schedule of the model starts with
InitialStatus(id) == IF id % 2 = 1 THEN "pending" ELSE "overdue"

\* the schedules recordPayment finds: of either tenant, for an amount of zero
\* (the schema's minimum) or more
PaySchedules(id) ==
    [property : PropIds, tenant : Tenants, amount : {0, MaxAmount}, dueDate : {MaxDate},
     status : {InitialStatus(id)}, lateFee : {0}]

InitPay ==
    /\ users = InitialUsers
    /\ properties = [p \in PropIds |-> FreshProperty("l1")]
    /\ propCount = MaxProps
    /\ schedules \in {f \in [SchedIds -> UNION {PaySchedules(id) : id \in SchedIds}] :
                        \A id \in SchedIds : f[id] \in PaySchedules(id)}
    /\ schedCount = MaxSchedules
    /\ payments = << >>
    /\ last = NoRequest
    /\ reqs = << >>

\* the principals that record payments: the admin, the owning landlord,
\* another landlord, a tenant, and a request without a token
PayCallers == {"a1", "l1", "l2", "t1", Anon}

NextPay ==
    \/ \E u \in PayCallers, id \in SchedIdInputs, amount \in PaymentAmounts,
          transactionId \in TxnIds, updateFails \in BOOLEAN :
          CreatePayment(u, id, amount, "cash", transactionId, updateFails)
    \/ \E u \in PayCallers, id \in SchedIds :
          CreatePayment(u, id, MaxAmount, "bogus", 1, FALSE)
    \/ \E id \in PropIds : DeleteProperty("a1", id)

SpecPay == InitPay /\ [][NextPay]_vars

\* the payment a successful recordPayment has just persisted
Recorded == payments'[Len(payments')]

\* a step is a successful recordPayment: it answers Ok and has inserted one
\* payment for the schedule it names
PaymentRecorded ==
    /\ last'.op = "createPayment"
    /\ last'.kind = "Ok"
    /\ Len(payments') = Len(payments) + 1
    /\ Recorded.rentSchedule = last'.schedule

\* every field of the schedule but status is as before, and so is every
\* other schedule
OnlyStatusWritten(id) ==
    /\ DOMAIN schedules' = DOMAIN schedules
    /\ [schedules'[id] EXCEPT !.status = schedules[id].status] = schedules[id]
    /\ \A x \in DOMAIN schedules \ {id} : schedules'[x] = schedules[x]

\* C12 as stated: a successful recordPayment with payment amount a on a
\* schedule with amount s sets the schedule's status to paid when a >= s, to
\* partial when 0 < a < s, and leaves it unchanged when a = 0; no other field
\* of the schedule changes.
C12_SettlementRule ==
    [][PaymentRecorded =>
        LET id == last'.schedule
            a == Recorded.amount
        IN  /\ a >= schedules[id].amount => schedules'[id].status = "paid"
            /\ (0 < a /\ a < schedules[id].amount) => schedules'[id].status = "partial"
            /\ a = 0 => schedules'[id].status = schedules[id].status
            /\ OnlyStatusWritten(id)]_vars

\* C12, amended: a successful recordPayment with payment amount a on a
\* schedule with amount s sets the schedule's status to paid when a >= s
\* (a = 0 on a schedule with s = 0 included), to partial when 0 < a < s, and
\* leaves it unchanged when a = 0 < s; no other field of the schedule changes.
C12_SettlementRuleInOrder ==
    [][PaymentRecorded =>
        LET id == last'.schedule
            a == Recorded.amount
        IN  /\ a >= schedules[id].amount => schedules'[id].status = "paid"
            /\ (0 < a /\ a < schedules[id].amount) => schedules'[id].status = "partial"
            /\ (a = 0 /\ 0 < schedules[id].amount)
                    => schedules'[id].status = schedules[id].status
            /\ OnlyStatusWritten(id)]_vars

\* C12's case: a payment smaller than the schedule's amount has been
\* recorded and the schedule is partial
C12_Witness ==
    /\ last.op = "createPayment"
    /\ last.kind = "Ok"
    /\ payments # << >>
    /\ payments[Len(payments)].rentSchedule = last.schedule
    /\ payments[Len(payments)].amount > 0
    /\ payments[Len(payments)].amount < schedules[last.schedule].amount
    /\ schedules[last.schedule].status = "partial"

(***************************************************************************)
(* POST /api/payments once more, one action per await: concurrent          *)
(* requests interleave at the database calls.                              *)
(***************************************************************************)
\* the principals of the racing payments: the admin and the schedules' tenant
PayRaceCallers == {"a1", "t1"}

\* the racing requests; transactionId is the id the handler will generate
PayRaceRequests ==
    [pc : {"find"}, user : PayRaceCallers, schedule : SchedIds,
     amount : {1, MaxAmount}, transactionId : TxnIds, seen : {None}, kind : {"none"}]

InitPayRace ==
    /\ users = InitialUsers
    /\ properties = [p \in PropIds |-> FreshProperty("l1")]
    /\ propCount = MaxProps
    /\ schedules = [id \in SchedIds |->
            [property |-> 1, tenant |-> "t1", amount |-> MaxAmount, dueDate |-> MaxDate,
             status |-> InitialStatus(id), lateFee |-> 0]]
    /\ schedCount = MaxSchedules
    /\ payments = << >>
    /\ last = NoRequest
    /\ reqs \in [Racers -> PayRaceRequests]

\* `await RentSchedule.findById(rentScheduleId).populate(...)` and the checks
\* that follow, up to the call of payment.save(); the handler keeps the
\* document it has read
PayFindSchedule(r) ==
    LET id == reqs[r].schedule
    IN  /\ reqs[r].pc = "find"
        /\ IF id \notin DOMAIN schedules THEN Respond(r, "NotFound")
           ELSE IF PopulateIsNull(schedules[id]) THEN Respond(r, "ServerError")
           ELSE IF ~PaymentHasAccess(reqs[r].user, schedules[id]) THEN Respond(r, "Forbidden")
           ELSE reqs' = [reqs EXCEPT ![r].pc = "save", ![r].seen = schedules[id]]
        /\ UNCHANGED <<users, properties, propCount, schedules, schedCount, payments, last>>

\* `await payment.save()`
PaySave(r) ==
    LET payment == NewPayment(reqs[r].schedule, reqs[r].seen, reqs[r].amount, "cash",
                              reqs[r].transactionId)
    IN  /\ reqs[r].pc = "save"
        /\ IF PaymentSchemaValid(payment) /\ TransactionIdFree(reqs[r].transactionId)
           THEN /\ payments' = Append(payments, payment)
                /\ Goto(r, IF reqs[r].amount > 0 THEN "update" ELSE "respond")
           ELSE /\ Respond(r, "ServerError")
                /\ UNCHANGED payments
        /\ UNCHANGED <<users, properties, propCount, schedules, schedCount, last>>

\* `await RentSchedule.findByIdAndUpdate(rentScheduleId, { status })`: the
\* status comes from the amount of the document read at the start
PayUpdate(r) ==
    LET id == reqs[r].schedule
    IN  /\ reqs[r].pc = "update"
        /\ schedules' = [x \in DOMAIN schedules |->
                IF x = id
                THEN [schedules[x] EXCEPT !.status = Settled(reqs[r].seen, reqs[r].amount).status]
                ELSE schedules[x]]
        /\ Goto(r, "respond")
        /\ UNCHANGED <<users, properties, propCount, schedCount, payments, last>>

\* `await Payment.findById(payment._id).populate(...)`, then the response
PayRespond(r) ==
    /\ reqs[r].pc = "respond"
    /\ Respond(r, "Ok")
    /\ UNCHANGED <<users, properties, propCount, schedules, schedCount, payments, last>>

NextPayRace ==
    \E r \in Racers :
        \/ PayFindSchedule(r)
        \/ PaySave(r)
        \/ PayUpdate(r)
        \/ PayRespond(r)

SpecPayRace == InitPayRace /\ [][NextPayRace]_vars

\* the payments persisted for a schedule
PaymentsOf(id) == {x \in DOMAIN payments : payments[x].rentSchedule = id}

\* two different requests have both been answered; they named the same
\* schedule and each carried the schedule's full amount; no payment of
\* another request was recorded
BothPaidInFull(r1, r2) ==
    /\ r1 # r2
    /\ \A r \in Racers : reqs[r].pc = "done"
    /\ \A r \in Racers \ {r1, r2} : reqs[r].kind # "Ok"
    /\ reqs[r1].schedule = reqs[r2].schedule
    /\ reqs[r1].amount = schedules[reqs[r1].schedule].amount
    /\ reqs[r2].amount = schedules[reqs[r2].schedule].amount

NextPaySeq ==
    \/ \E u \in PayCallers, id \in SchedIdInputs, amount \in PaymentAmounts,
          transactionId \in TxnIds :
          CreatePayment(u, id, amount, "cash", transactionId, FALSE)
    \/ \E id \in PropIds : DeleteProperty("a1", id)

SpecPaySeq == InitPay /\ [][NextPaySeq]_vars

\* the most recent of a non-empty set of payments
MostRecent(xs) == CHOOSE x \in xs : \A y \in xs : y <= x

\* the status the settlement rule gives for a payment amount
StatusFor(amount, schedule) == IF amount >= schedule.amount THEN "paid" ELSE "partial"

\* C14 as stated: after any sequence of successful recordPayment calls on a
\* schedule S, S.status is derived from the most recent payment with
\* amount > 0 alone (paid if that amount >= S.amount, partial otherwise) and
\* is S's initial status if there is no such payment.
C14_LastPositivePayment ==
    \A id \in DOMAIN schedules :
        LET positive == {x \in PaymentsOf(id) : payments[x].amount > 0}
        IN  schedules[id].status =
                IF positive = {} THEN InitialStatus(id)
                ELSE StatusFor(payments[MostRecent(positive)].amount, schedules[id])

\* C14, amended: S.status is derived from the most recent payment that
\* writes the status alone, which is one with amount > 0 or with
\* amount >= S.amount (a zero payment on a schedule of amount zero), and is
\* S's initial status if there is no such payment; amounts are never
\* accumulated.
C14_LastSettlingPayment ==
    \A id \in DOMAIN schedules :
        LET settling == {x \in PaymentsOf(id) :
                            payments[x].amount > 0
                                \/ payments[x].amount >= schedules[id].amount}
        IN  schedules[id].status =
                IF settling = {} THEN InitialStatus(id)
                ELSE StatusFor(payments[MostRecent(settling)].amount, schedules[id])

\* C14's case: a partial payment recorded after a full one has left the
\* schedule partial
C14_Witness ==
    \E id \in DOMAIN schedules :
        \E x1, x2 \in PaymentsOf(id) :
            /\ x1 < x2
            /\ payments[x1].amount >= schedules[id].amount
            /\ payments[x2].amount > 0
            /\ payments[x2].amount < schedules[id].amount
            /\ schedules[id].status = "partial"

\* the principals recordPayment is for: an admin, the landlord of the
\* schedule's property, the schedule's tenant
PaymentPermitted(u, schedule) ==
    \/ Role(u) = "admin"
    \/ OwnsProperty(u, schedule.property)
    \/ schedule.tenant = u

\* nothing of a payment is stored
NothingRecorded == payments' = payments /\ schedules' = schedules

\* C15: recordPayment by a principal who is not an admin, not the landlord
\* of the schedule's property and not the schedule's tenant always fails with
\* Forbidden, persists no Payment and leaves the schedule's status unchanged;
\* an admin, the owning landlord and the schedule's tenant are not refused.
C15_StrangerForbidden ==
    [][(/\ last'.op = "createPayment"
        /\ auth(last'.user)
        /\ last'.schedule \in DOMAIN schedules)
          => \A amount \in PaymentAmounts, transactionId \in TxnIds, updateFails \in BOOLEAN :
                CreatePayment(last'.user, last'.schedule, amount, "cash",
                              transactionId, updateFails)
                    => IF PaymentPermitted(last'.user, schedules[last'.schedule])
                       THEN last'.kind # "Forbidden"
                       ELSE last'.kind = "Forbidden" /\ NothingRecorded]_vars

\* C15, where the code departs from the claim: a tenant recording a payment
\* on another tenant's schedule has got the generic failure, not Forbidden,
\* because the schedule's property is gone
C15_StrangerGotServerError ==
    /\ last.op = "createPayment"
    /\ last.kind = "ServerError"
    /\ Role(last.user) = "tenant"
    /\ last.schedule \in DOMAIN schedules
    /\ schedules[last.schedule].tenant # last.user
    /\ schedules[last.schedule].property \notin DOMAIN properties

\* C16: recordPayment with a negative amount is rejected with the
\* ValidationFailed kind (not the generic internal-failure kind), persists no
\* Payment and leaves the schedule's status unchanged.
C16_NegativeAmountInvalid ==
    [][(/\ last'.op = "createPayment"
        /\ auth(last'.user)
        /\ last'.schedule \in DOMAIN schedules
        /\ PaymentPermitted(last'.user, schedules[last'.schedule]))
          => \A amount \in {a \in PaymentAmounts : a < 0}, transactionId \in TxnIds,
                updateFails \in BOOLEAN :
                CreatePayment(last'.user, last'.schedule, amount, "cash",
                              transactionId, updateFails)
                    => last'.kind = "ValidationFailed" /\ NothingRecorded]_vars

\* C16, where the code departs from the claim: the first payment request, by
\* a permitted principal on a schedule whose property exists, has ended in
\* the generic failure (no transactionId is taken yet and nothing was
\* stored, so the schema's minimum on amount refused it)
C16_NegativeAmountServerError ==
    /\ last.op = "createPayment"
    /\ last.kind = "ServerError"
    /\ payments = << >>
    /\ last.schedule \in DOMAIN schedules
    /\ schedules[last.schedule].property \in DOMAIN properties
    /\ PaymentPermitted(last.user, schedules[last.schedule])

\* C17: in every reachable state no two persisted Payment records have the
\* same transactionId.
C17_TransactionIdsUnique ==
    \A x1, x2 \in DOMAIN payments :
        x1 # x2 => payments[x1].transactionId # payments[x2].transactionId

\* C17's case: a second payment has been recorded beside an earlier one
C17_Witness ==
    /\ last.op = "createPayment"
    /\ last.kind = "Ok"
    /\ Len(payments) >= 2
    /\ payments[Len(payments)].rentSchedule = payments[1].rentSchedule

\* request r passed the lookup and the access check, its generated
\* transactionId is that of a stored payment, and it has been answered with
\* a failure: the insert of r collided
Collided(r) ==
    /\ reqs[r].pc = "done"
    /\ reqs[r].kind \notin {"Ok", "NotFound", "Forbidden"}
    /\ reqs[r].amount >= 0
    /\ \E x \in DOMAIN payments : payments[x].transactionId = reqs[r].transactionId

\* C18: when the transactionId generated by recordPayment equals that of an
\* existing payment, the operation retries with a new id (and succeeds) or
\* fails with the Conflict kind, not the generic internal-failure kind; in
\* the failing case no Payment of the request is persisted.
C18_CollisionIsConflict ==
    \A r \in Racers :
        Collided(r)
            => /\ reqs[r].kind = "Conflict"
               /\ Cardinality({x \in DOMAIN payments :
                     payments[x].transactionId = reqs[r].transactionId}) = 1

\* C18, where the code departs from the claim: a request whose generated id
\* was taken by the payment of another request has been answered with the
\* generic failure
C18_CollisionServerError ==
    \E r1, r2 \in Racers :
        /\ r1 # r2
        /\ Collided(r1)
        /\ reqs[r1].kind = "ServerError"
        /\ reqs[r2].kind = "Ok"
        /\ reqs[r2].transactionId = reqs[r1].transactionId

\* C19: recordPayment is atomic: if it fails for any reason, a store failure
\* at the status update after the Payment insert included, no Payment is
\* persisted and the schedule's status is unchanged.
C19_FailurePersistsNothing ==
    [][(last'.op = "createPayment" /\ last'.kind # "Ok") => NothingRecorded]_vars

\* C19, where the code departs from the claim: the call has been answered
\* with a failure, its Payment is stored, and the schedule still has the
\* status the amount of that Payment should have replaced
C19_FailedYetRecorded ==
    /\ last.op = "createPayment"
    /\ last.kind = "ServerError"
    /\ last.schedule \in DOMAIN schedules
    /\ payments # << >>
    /\ LET payment == payments[Len(payments)]
       IN  /\ payment.rentSchedule = last.schedule
           /\ payment.paymentDate = Len(payments)
           /\ payment.amount > 0
           /\ schedules[last.schedule].status = InitialStatus(last.schedule)
           /\ Settled(schedules[last.schedule], payment.amount).status
                 # schedules[last.schedule].status

\* ---- assign-property with a store failure at the tenant-profile update ----

\* `await User.findByIdAndUpdate(tenantId, tenantUpdates)` throws: the call
\* is made only when a date was given; the catch block answers 500
AssignMirrorFails(r) ==
    /\ reqs[r].pc = "mirror"
    /\ reqs[r].moveInDate # NoDate \/ reqs[r].leaseEndDate # NoDate
    /\ Respond(r, "ServerError")
    /\ UNCHANGED <<users, properties, propCount, schedules, schedCount, payments, last>>

NextAssignFail ==
    \/ NextAssignRace
    \/ \E r \in Racers : AssignMirrorFails(r)

SpecAssignFail == InitAssignRace /\ [][NextAssignFail]_vars

\* no other request has written the property of request r: each is about
\* another property or was answered by one of the checks before the save
OnlyWriter(r) ==
    \A r2 \in Racers \ {r} :
        \/ reqs[r2].property # reqs[r].property
        \/ /\ reqs[r2].pc = "done"
           /\ reqs[r2].kind \in {"NotFound", "Forbidden", "InvalidState"}

\* C20: assign-tenant is atomic: if it fails for any reason, a store failure
\* while mirroring the dates onto the tenant profile after the property save
\* included, the property's status, currentTenant and leaseTerms are
\* unchanged.
C20_FailedAssignChangesNothing ==
    \A r \in Racers :
        (/\ reqs[r].pc = "done"
         /\ reqs[r].kind # "Ok"
         /\ OnlyWriter(r))
            => properties[reqs[r].property] = FreshProperty("l1")

\* C20, where the code departs from the claim: the request has been answered
\* with a failure and the property is occupied by its tenant, with the lease
\* start date of the request
C20_FailedYetAssigned ==
    \E r \in Racers :
        /\ reqs[r].pc = "done"
        /\ reqs[r].kind = "ServerError"
        /\ OnlyWriter(r)
        /\ properties[reqs[r].property].status = "occupied"
        /\ properties[reqs[r].property].currentTenant = reqs[r].tenant
        /\ properties[reqs[r].property].leaseTerms.startDate = reqs[r].moveInDate
        /\ users[reqs[r].tenant].moveInDate # reqs[r].moveInDate

(***************************************************************************)
(* Authorization of assign-tenant and remove-tenant, checked under Spec.   *)
(***************************************************************************)
\* the request handled last was an assign-tenant or a remove-tenant
OccupancyRequest == last'.op \in {"assignProperty", "removeProperty"}

\* the principal of the request is a landlord, the property exists and its
\* landlord is another user
ForeignLandlord ==
    /\ Role(last'.user) = "landlord"
    /\ last'.property \in DOMAIN properties
    /\ properties[last'.property].landlord # last'.user

NextProfile ==
    \/ NextTenants
    \/ \E u \in TenantCallers \cup {Anon}, id \in TenantIdInputs : GetTenant(u, id)

SpecProfile == InitOccupancy /\ [][NextProfile]_vars

\* the request handled last was a read or an update of a tenant profile
ProfileRequest == last'.op \in {"getTenant", "updateTenant"}

\* C22: a landlord can read or update a tenant's profile only while that
\* tenant is the currentTenant of at least one property the landlord owns:
\* before assignment and again after a successful remove-tenant the request
\* returns Forbidden and the profile is unchanged; a tenant principal can
\* read or update only their own profile.
C22_ProfileAccess ==
    [][(ProfileRequest /\ IsTenant(last'.tenant))
          => /\ Role(last'.user) = "landlord"
                  => IF \E p \in DOMAIN properties : OwnsProperty(last'.user, p)
                                /\ properties[p].currentTenant = last'.tenant
                     THEN last'.kind = "Ok"
                     ELSE last'.kind = "Forbidden" /\ users' = users
             /\ Role(last'.user) = "tenant"
                  => IF last'.user = last'.tenant
                     THEN last'.kind = "Ok"
                     ELSE last'.kind = "Forbidden" /\ users' = users]_vars

\* C22's case: a landlord has been denied the update of the profile of a
\* tenant who was assigned before (the profile carries the lease end date
\* that only assign-tenant writes) and is the currentTenant of no property
\* any more
C22_Witness ==
    /\ last.op = "updateTenant"
    /\ last.kind = "Forbidden"
    /\ Role(last.user) = "landlord"
    /\ IsTenant(last.tenant)
    /\ users[last.tenant].leaseEndDate = MaxDate
    /\ \A p \in DOMAIN properties : properties[p].currentTenant # last.tenant

(***************************************************************************)
(* routes/rentSchedules.js: POST /api/rent-schedules/bulk.  A date is the  *)
(* integer yyyymmdd of a calendar day.  startDate and endDate are ISO      *)
(* dates without a time: new Date(...) reads them as midnight UTC, while   *)
(* getMonth, setMonth, getFullYear and setFullYear work on the calendar    *)
(* day of the server's local time zone.                                    *)
(***************************************************************************)
\* the number of years the dates of a request span
MaxYears == 2

\* the year of the dates
FirstYear == 2024

BulkYears == FirstYear..(FirstYear + MaxYears - 1)

MakeDate(y, m, d) == (y * 10000) + (m * 100) + d

Year(date) == date \div 10000

Month(date) == (date \div 100) % 100

Day(date) == date % 100

IsLeap(y) == y % 4 = 0 /\ (y % 100 # 0 \/ y % 400 = 0)

DaysIn(y, m) ==
    IF m = 2 THEN (IF IsLeap(y) THEN 29 ELSE 28)
    ELSE IF m \in {4, 6, 9, 11} THEN 30
    ELSE 31

\* the calendar day before / after a day
PrevDay(date) ==
    IF Day(date) > 1 THEN date - 1
    ELSE IF Month(date) > 1
         THEN MakeDate(Year(date), Month(date) - 1, DaysIn(Year(date), Month(date) - 1))
         ELSE MakeDate(Year(date) - 1, 12, 31)

NextDay(date) ==
    IF Day(date) < DaysIn(Year(date), Month(date)) THEN date + 1
    ELSE IF Month(date) < 12 THEN MakeDate(Year(date), Month(date) + 1, 1)
         ELSE MakeDate(Year(date) + 1, 1, 1)

\* the server's time zone, as the offset in days of the local calendar day
\* of midnight UTC from the UTC day: 0 at UTC and east of it, -1 west of it
Zones == {0, -1}

\* getFullYear/getMonth/getDate of new Date(isoDate)
ToLocal(date, zone) == IF zone = -1 THEN PrevDay(date) ELSE date

\* the instant of a local day, as the UTC day that is stored
ToUTC(date, zone) == IF zone = -1 THEN NextDay(date) ELSE date

\* a Date set to day d of month m (1..12) of year y, d possibly past the end
\* of the month: the day overflows into the next month
Overflowed(y, m, d) ==
    IF d > DaysIn(y, m) THEN MakeDate(y, m + 1, d - DaysIn(y, m)) ELSE MakeDate(y, m, d)

\* currentDate.setMonth(currentDate.getMonth() + n)
SetMonth(date, n) ==
    LET total == Month(date) - 1 + n
    IN  Overflowed(Year(date) + (total \div 12), (total % 12) + 1, Day(date))

\* currentDate.setFullYear(currentDate.getFullYear() + 1)
SetFullYear(date) == Overflowed(Year(date) + 1, Month(date), Day(date))

\* the switch on frequency
\* a switch that leaves currentDate where it is
AdvanceStuck(current, frequency) == current

Advance(current, frequency) ==
    IF frequency = "monthly" THEN SetMonth(current, 1)
    ELSE IF frequency = "quarterly" THEN SetMonth(current, 3)
    ELSE SetFullYear(current)

RECURSIVE BulkDatesDoWhile(_, _, _)
\* the loop testing its condition after the push
BulkDatesDoWhile(current, end, frequency) ==
    <<current>> \o (IF current <= end
                    THEN BulkDatesDoWhile(Advance(current, frequency), end, frequency)
                    ELSE << >>)

RECURSIVE BulkDates(_, _, _)
\* `while (currentDate <= end) { schedules.push(...); switch ... }`: the
\* local days of the schedules pushed
BulkDates(current, end, frequency) ==
    IF current <= end
    THEN <<current>> \o BulkDates(Advance(current, frequency), end, frequency)
    ELSE << >>

Frequencies == {"monthly", "quarterly", "yearly"}

\* a document of the batch, with the schema's defaults
BulkSchedule(body, dueDate) ==
    [property |-> body.property, tenant |-> body.tenant, amount |-> body.amount,
     dueDate |-> dueDate, status |-> "pending", lateFee |-> 0,
     recurring |-> TRUE, frequency |-> body.frequency]

\* the response to POST /bulk with the request it answers
BulkReply(u, body, zone, kind, count) ==
    [op |-> "bulkCreate", user |-> u, tenant |-> body.tenant, property |-> body.property,
     schedule |-> BadId, kind |-> kind, items |-> {}, amount |-> body.amount,
     startDate |-> body.startDate, endDate |-> body.endDate,
     frequency |-> body.frequency, zone |-> zone, count |-> count]

BulkCreate(u, body, zone) ==
    LET fail(kind) == /\ last' = BulkReply(u, body, zone, kind, 0)
                      /\ UNCHANGED <<schedules, schedCount>>
        dates == BulkDates(ToLocal(body.startDate, zone), ToLocal(body.endDate, zone),
                           body.frequency)
        ids == (schedCount + 1)..(schedCount + Len(dates))
    IN  /\ schedCount < MaxSchedules
        /\ UNCHANGED <<users, properties, propCount, payments, reqs>>
        /\ IF ~auth(u) THEN fail("Unauthorized")
           ELSE IF ~authorize(u, {"admin", "landlord"}) THEN fail("Forbidden")
           ELSE IF body.property = BadId \/ body.frequency \notin Frequencies
                THEN fail("ValidationFailed")
           ELSE IF body.property \notin DOMAIN properties THEN fail("NotFound")
           ELSE IF LandlordDenied(u, properties[body.property]) THEN fail("Forbidden")
           ELSE IF dates # << >> /\ body.amount < 0 THEN fail("ServerError")
           ELSE /\ schedules' = [id \in ids |->
                        BulkSchedule(body, ToUTC(dates[id - schedCount], zone))] @@ schedules
                /\ schedCount' = schedCount + Len(dates)
                /\ last' = BulkReply(u, body, zone, "Ok", Len(dates))

\* the days a request may name: the first day of a month, a day in the
\* middle, and the days 28 to 31 where the month has them
BulkDays(y, m) == {d \in {1, 15, 28, 29, 30, 31} : d <= DaysIn(y, m)}


StartDates == UNION {{MakeDate(FirstYear, m, d) : d \in BulkDays(FirstYear, m)} : m \in 1..12}

EndDates == {MakeDate(y, m, d) : y \in BulkYears, m \in 1..12, d \in {1, 15, 28}}

\* the request bodies of POST /bulk that vary the dates
BulkBodies ==
    [property : PropIds, tenant : {"t1"}, amount : {MaxAmount},
     startDate : StartDates, endDate : EndDates, frequency : Frequencies]

\* the request bodies that vary the property, the amount and the frequency
\* ("weekly" is outside the validator's list)
BulkAccessBodies ==
    [property : PropIdInputs, tenant : {"t1"}, amount : {-1, MaxAmount},
     startDate : {MakeDate(FirstYear, 1, 1)}, endDate : {MakeDate(FirstYear, 3, 1)},
     frequency : {"monthly", "weekly"}]

\* one bulk request on the empty collection, for every body and time zone
NextBulk ==
    /\ last = NoRequest
    /\ \E body \in BulkBodies, zone \in Zones : BulkCreate("a1", body, zone)

SpecBulk == InitOccupancy /\ [][NextBulk]_vars

\* the dueDates of the stored schedules, in the order of their ids
DueDates == [id \in 1..schedCount |-> schedules[id].dueDate]

\* the months from one day to another, by their calendar months alone
MonthsBetween(from, to) ==
    ((Year(to) * 12) + Month(to)) - ((Year(from) * 12) + Month(from))

\* the calendar months a frequency steps by
StepOf(frequency) ==
    IF frequency = "monthly" THEN 1 ELSE IF frequency = "quarterly" THEN 3 ELSE 12

\* the days startDate + k * step, k >= 0, that are not after endDate, each
\* with startDate's day of the month
DueDatesExpected(startDate, endDate, frequency) ==
    {date \in {MakeDate(y, m, Day(startDate)) : y \in BulkYears, m \in 1..12} :
        /\ startDate <= date
        /\ date <= endDate
        /\ MonthsBetween(startDate, date) % StepOf(frequency) = 0}

\* the request answered last is a bulk generation that passed the checks of
\* the principal, the body and the property
BulkHandled ==
    /\ last.op = "bulkCreate"
    /\ last.kind \notin {"Unauthorized", "Forbidden", "ValidationFailed", "NotFound"}
    /\ last.amount >= 0

\* C24: for a startDate whose day-of-month is at most 28 and any endDate >=
\* startDate, bulk generation produces exactly the schedules with dueDate =
\* startDate + k*step for every k >= 0 with startDate + k*step <= endDate,
\* step being 1, 3 or 12 calendar months, every dueDate keeping startDate's
\* day-of-month, and the reported count equals that number.
C24_ExactDueDates ==
    (BulkHandled /\ Day(last.startDate) <= 28 /\ last.endDate >= last.startDate)
        => LET expected == DueDatesExpected(last.startDate, last.endDate, last.frequency)
           IN  /\ last.kind = "Ok"
               /\ {DueDates[id] : id \in 1..schedCount} = expected
               /\ schedCount = Cardinality(expected)
               /\ last.count = Cardinality(expected)

\* C24, where the code departs from the claim: on a server west of UTC,
\* monthly generation from 2024-01-01 to 2024-03-01 has stored two schedules,
\* due 2024-01-01 and 2024-02-01, and none due 2024-03-01
C24_MarchMissing ==
    /\ BulkHandled
    /\ last.kind = "Ok"
    /\ last.zone = -1
    /\ last.frequency = "monthly"
    /\ last.startDate = MakeDate(FirstYear, 1, 1)
    /\ last.endDate = MakeDate(FirstYear, 3, 1)
    /\ last.count = 2
    /\ DueDates = <<MakeDate(FirstYear, 1, 1), MakeDate(FirstYear, 2, 1)>>

\* C24 on a server at UTC or east of it
C24_ExactDueDatesAtUTC == (BulkHandled /\ last.zone = 0) => C24_ExactDueDates

\* C25: bulk generation by an authorized caller with startDate strictly
\* after endDate succeeds (no error outcome), persists no rent schedule and
\* reports a count of 0.
C25_EmptyBatch ==
    (BulkHandled /\ last.startDate > last.endDate)
        => /\ last.kind = "Ok"
           /\ last.count = 0
           /\ schedules = << >>
           /\ schedCount = 0

\* C25's case: a quarterly generation whose startDate is the day after its
\* endDate has been answered
C25_Witness ==
    /\ BulkHandled
    /\ last.kind = "Ok"
    /\ last.frequency = "quarterly"
    /\ last.endDate = MakeDate(FirstYear, 2, 28)
    /\ last.startDate = NextDay(last.endDate)
    /\ last.count = 0

\* C26: for every bulk generation request (any startDate, the month-end
\* days 29-31 where calendar overflow applies included, any endDate, any of
\* the three frequencies), the dueDates of the generated schedules, in
\* generation order, are strictly increasing, the first equals startDate,
\* and none exceeds endDate.
C26_DueDatesIncrease ==
    BulkHandled
        => /\ \A id1, id2 \in 1..schedCount : id1 < id2 => DueDates[id1] < DueDates[id2]
           /\ schedCount > 0 => DueDates[1] = last.startDate
           /\ \A id \in 1..schedCount : DueDates[id] <= last.endDate

\* C26's case: a monthly generation from January 31 has overflowed February
\* into March 2 and has gone on from there
C26_Witness ==
    /\ BulkHandled
    /\ last.kind = "Ok"
    /\ last.zone = 0
    /\ last.frequency = "monthly"
    /\ last.startDate = MakeDate(FirstYear, 1, 31)
    /\ schedCount >= 3
    /\ DueDates[2] = MakeDate(FirstYear, 3, 2)
    /\ DueDates[3] = MakeDate(FirstYear, 4, 2)

(***************************************************************************)
(* Creating rent schedules, singly and in bulk, by every principal and for *)
(* every property id.                                                      *)
(***************************************************************************)
NextCreate ==
    \/ \E u \in Callers, body \in ScheduleBodies : CreateRentSchedule(u, body)
    \/ \E u \in Callers, body \in BulkAccessBodies, zone \in Zones : BulkCreate(u, body, zone)

SpecCreate == InitOccupancy /\ [][NextCreate]_vars

\* the request answered is a creation of rent schedules by a principal the
\* operation is for, with a body that passes the validators of the route
CreationRequest ==
    /\ last'.op \in {"createRentSchedule", "bulkCreate"}
    /\ Role(last'.user) \in {"admin", "landlord"}
    /\ last'.property # BadId
    /\ last'.op = "bulkCreate" => last'.frequency \in Frequencies

\* C27: a landlord cannot create rent schedules, singly or in bulk, for a
\* property whose landlord is a different user: the request fails with
\* Forbidden and no rent schedule is persisted; a request naming a
\* non-existent property fails with NotFound and persists nothing.
C27_CreateDenied ==
    [][CreationRequest
          => /\ ForeignLandlord
                  => last'.kind = "Forbidden" /\ schedules' = schedules
             /\ last'.property \notin DOMAIN properties
                  => last'.kind = "NotFound" /\ schedules' = schedules]_vars

\* C27's case: a landlord has been refused a bulk generation for another
\* landlord's property, with a schedule of an earlier request in the store
C27_Witness ==
    /\ last.op = "bulkCreate"
    /\ last.kind = "Forbidden"
    /\ Role(last.user) = "landlord"
    /\ last.frequency \in Frequencies
    /\ last.property \in DOMAIN properties
    /\ properties[last.property].landlord \in Landlords \ {last.user}
    /\ schedCount = 1
    /\ DOMAIN schedules = {1}

(***************************************************************************)
(* routes/rentSchedules.js: GET /:id and PUT /:id; routes/properties.js:   *)
(* GET /:id.                                                               *)
(***************************************************************************)
\* `req.user.role === 'tenant' && property.currentTenant?._id.toString() !== req.user._id.toString()`
TenantDenied(u, property) == Role(u) = "tenant" /\ property.currentTenant # u

GetProperty(u, id) ==
    LET reply(kind) == Reply("getProperty", u, None, id, kind)
    IN  /\ UNCHANGED <<users, properties, propCount, schedules, schedCount, payments, reqs>>
        /\ last' = IF ~auth(u) THEN reply("Unauthorized")
                   ELSE IF id = BadId THEN reply("ServerError")
                   ELSE IF id \notin DOMAIN properties THEN reply("NotFound")
                   ELSE IF TenantDenied(u, properties[id]) THEN reply("Forbidden")
                   ELSE IF LandlordDenied(u, properties[id]) THEN reply("Forbidden")
                   ELSE reply("Ok")

GetRentSchedule(u, id) ==
    LET reply(kind) == ScheduleReply("getRentSchedule", u, id, kind)
    IN  /\ UNCHANGED <<users, properties, propCount, schedules, schedCount, payments, reqs>>
        /\ last' = IF ~auth(u) THEN reply("Unauthorized")
                   ELSE IF id = BadId THEN reply("ServerError")
                   ELSE IF id \notin DOMAIN schedules THEN reply("NotFound")
                   ELSE IF Role(u) = "tenant" /\ schedules[id].tenant # u
                        THEN reply("Forbidden")
                   ELSE IF Role(u) = "landlord" /\ PopulateIsNull(schedules[id])
                        THEN reply("ServerError")
                   ELSE IF LandlordDenied(u, Populated(schedules[id])) THEN reply("Forbidden")
                   ELSE reply("Ok")

\* the request bodies of PUT /api/rent-schedules/:id: a status (possibly one
\* outside the enum), an amount, a lateFee, each possibly absent
ScheduleUpdateBodies ==
    [status : {Absent, "paid", "bogus"},
     hasAmount : BOOLEAN, amount : {-1},
     hasLateFee : BOOLEAN, lateFee : {-1}]

\* RentSchedule.findByIdAndUpdate(req.params.id, req.body)
UpdatedSchedule(schedule, body) ==
    [schedule EXCEPT
        !.status = IF body.status = Absent THEN @ ELSE body.status,
        !.amount = IF body.hasAmount THEN body.amount ELSE @,
        !.lateFee = IF body.hasLateFee THEN body.lateFee ELSE @]

\* runValidators: the validators of the paths the update sets (amount has
\* min 0, lateFee has none)
ScheduleUpdateValid(body) == body.hasAmount => body.amount >= 0

UpdateRentSchedule(u, id, body) ==
    LET reply(kind) == ScheduleReply("updateRentSchedule", u, id, kind)
        fail(kind) == last' = reply(kind) /\ UNCHANGED schedules
    IN  /\ UNCHANGED <<users, properties, propCount, schedCount, payments, reqs>>
        /\ IF ~auth(u) THEN fail("Unauthorized")
           ELSE IF body.status \notin {Absent} \cup RentStatuses THEN fail("ValidationFailed")
           ELSE IF id = BadId THEN fail("ServerError")
           ELSE IF id \notin DOMAIN schedules THEN fail("NotFound")
           ELSE IF Role(u) # "admin" /\ PopulateIsNull(schedules[id]) THEN fail("ServerError")
           ELSE IF ~PaymentHasAccess(u, schedules[id]) THEN fail("Forbidden")
           ELSE IF ~ScheduleUpdateValid(body) THEN fail("ServerError")
           ELSE /\ schedules' = [schedules EXCEPT ![id] = UpdatedSchedule(@, body)]
                /\ last' = reply("Ok")

\* the stored properties of SpecAccess: of either landlord, vacant or
\* occupied by tenant t1
AccessProperties ==
    {FreshProperty(l) : l \in Landlords}
        \cup {Assigned(FreshProperty(l), "t1", NoDate, NoDate) : l \in Landlords}

InitAccess ==
    /\ users = InitialUsers
    /\ properties \in [PropIds -> AccessProperties]
    /\ propCount = MaxProps
    /\ schedules \in [SchedIds -> {schedule \in PaySchedules(1) : schedule.amount > 0}]
    /\ schedCount = MaxSchedules
    /\ payments = << >>
    /\ last = NoRequest
    /\ reqs = << >>

\* the principals of SpecAccess
AccessCallers == {"a1", "l1", "l2", "t1", "t2", Anon}

\* the update bodies of SpecAccess: those without a lateFee
AccessUpdateBodies == {body \in ScheduleUpdateBodies : ~body.hasLateFee}

NextAccess ==
    \/ \E u \in AccessCallers, id \in PropIdInputs : GetProperty(u, id)
    \/ \E u \in AccessCallers, id \in SchedIdInputs : GetRentSchedule(u, id)
    \/ \E u \in AccessCallers, id \in SchedIdInputs, body \in AccessUpdateBodies :
          UpdateRentSchedule(u, id, body)
    \/ \E u \in AccessCallers, id \in SchedIdInputs : DeleteRentSchedule(u, id)
    \/ \E id \in PropIds : DeleteProperty("a1", id)

SpecAccess == InitAccess /\ [][NextAccess]_vars

\* the update bodies that pass the validators of PUT /api/rent-schedules/:id
ValidScheduleUpdateBodies == {body \in AccessUpdateBodies : body.status # "bogus"}

\* the outcome C28 states: Forbidden, every rent schedule as it was
ScheduleKept == last'.kind = "Forbidden" /\ schedules' = schedules

\* C28: a landlord who does not own the schedule's property and a tenant who
\* is not the schedule's tenant always receive Forbidden when updating a rent
\* schedule, and a landlord who does not own the schedule's property always
\* receives Forbidden when deleting it; in each case the schedule is
\* unchanged and still present.
C28_ForeignWriterDenied ==
    [][(/\ last'.op \in {"updateRentSchedule", "deleteRentSchedule"}
        /\ last'.schedule \in DOMAIN schedules)
          => LET u == last'.user
                 id == last'.schedule
                 foreignLandlord ==
                     Role(u) = "landlord" /\ ~OwnsProperty(u, schedules[id].property)
                 foreignTenant == Role(u) = "tenant" /\ schedules[id].tenant # u
             IN  /\ (foreignLandlord \/ foreignTenant)
                        => \A body \in ValidScheduleUpdateBodies :
                              UpdateRentSchedule(u, id, body) => ScheduleKept
                 /\ foreignLandlord => (DeleteRentSchedule(u, id) => ScheduleKept)]_vars

\* C28, where the code departs from the claim: a tenant updating another
\* tenant's schedule has got the generic failure, not Forbidden, because the
\* schedule's property is gone
C28_StrangerGotServerError ==
    /\ last.op = "updateRentSchedule"
    /\ last.kind = "ServerError"
    /\ Role(last.user) = "tenant"
    /\ last.schedule \in DOMAIN schedules
    /\ schedules[last.schedule].tenant # last.user
    /\ schedules[last.schedule].property \notin DOMAIN properties

\* C29: a direct read by id of an existing entity the principal may not see
\* returns Forbidden, never an empty or filtered success: a tenant reading a
\* property whose currentTenant is not them (or is empty), a landlord
\* reading a property they do not own, a tenant reading another tenant's
\* rent schedule, and a landlord reading a schedule of a property they do
\* not own each receive Forbidden.
C29_HiddenReadForbidden ==
    [][LET u == last'.user
       IN  /\ (last'.op = "getProperty" /\ last'.property \in DOMAIN properties)
                => ((\/ Role(u) = "tenant" /\ properties[last'.property].currentTenant # u
                     \/ Role(u) = "landlord" /\ properties[last'.property].landlord # u)
                        => last'.kind = "Forbidden")
           /\ (last'.op = "getRentSchedule" /\ last'.schedule \in DOMAIN schedules)
                => ((\/ Role(u) = "tenant" /\ schedules[last'.schedule].tenant # u
                     \/ /\ Role(u) = "landlord"
                        /\ ~OwnsProperty(u, schedules[last'.schedule].property))
                        => last'.kind = "Forbidden")]_vars

\* C29, where the code departs from the claim: a landlord reading a rent
\* schedule whose property is gone has got the generic failure
C29_LandlordGotServerError ==
    /\ last.op = "getRentSchedule"
    /\ last.kind = "ServerError"
    /\ Role(last.user) = "landlord"
    /\ last.schedule \in DOMAIN schedules
    /\ schedules[last.schedule].property \notin DOMAIN properties

(***************************************************************************)
(* routes/properties.js: POST /api/properties/:id/maintenance, beside the  *)
(* generic update and the occupancy operations, on properties that carry   *)
(* their maintenanceHistory.                                               *)
(***************************************************************************)
\* the number of maintenance records of a property
MaxHistory == 2

\* maintenanceRequest, with the schema's default status
MaintenanceRequest(u) == [reportedBy |-> u, status |-> "pending"]

\* `hasAccess` of POST /:id/maintenance
MaintenanceHasAccess(u, property) ==
    Role(u) = "admin" \/ property.landlord = u \/ property.currentTenant = u

AddMaintenance(u, id, valid) ==
    LET reply(kind) == Reply("addMaintenance", u, None, id, kind)
        fail(kind) == last' = reply(kind) /\ UNCHANGED properties
    IN  /\ UNCHANGED <<users, propCount, schedules, schedCount, payments, reqs>>
        /\ IF ~auth(u) THEN fail("Unauthorized")
           ELSE IF ~valid THEN fail("ValidationFailed")
           ELSE IF id = BadId THEN fail("ServerError")
           ELSE IF id \notin DOMAIN properties THEN fail("NotFound")
           ELSE IF ~MaintenanceHasAccess(u, properties[id]) THEN fail("Forbidden")
           ELSE /\ Len(properties[id].maintenanceHistory) < MaxHistory
                /\ properties' = [properties EXCEPT ![id].maintenanceHistory =
                                      Append(@, MaintenanceRequest(u))]
                /\ last' = reply("Ok")

\* a maintenance record as a request body may spell it out
CompletedRecord == [reportedBy |-> "l1", status |-> "completed"]

\* bodies of PUT /api/properties/:id that carry a maintenanceHistory
HistoryBodies ==
    [status : {Absent}, currentTenant : {Absent}, landlord : {Absent},
     maintenanceHistory : {<< >>, <<CompletedRecord>>}]

InitMaintenance ==
    /\ users = InitialUsers
    /\ properties = [p \in PropIds |-> FreshProperty("l1")]
    /\ propCount = MaxProps
    /\ schedules = << >>
    /\ schedCount = 0
    /\ payments = << >>
    /\ last = NoRequest
    /\ reqs = << >>

MaintenanceCallers == {"a1", "l1", "l2", "t1", Anon}

NextMaintenance ==
    \/ \E u \in MaintenanceCallers, id \in PropIdInputs, valid \in BOOLEAN :
          AddMaintenance(u, id, valid)
    \/ \E u \in MaintenanceCallers, id \in PropIds, body \in HistoryBodies \cup {PlainBody} :
          UpdateProperty(u, id, body)
    \/ \E u \in MaintenanceCallers, t \in Tenants, p \in PropIds, d \in LeasePairs :
          AssignProperty(u, t, p, d[1], d[2])
    \/ \E u \in MaintenanceCallers, t \in Tenants, p \in PropIds : RemoveProperty(u, t, p)

SpecMaintenance == InitMaintenance /\ [][NextMaintenance]_vars

\* xs is a prefix of ys
IsPrefix(xs, ys) == Len(xs) <= Len(ys) /\ \A i \in 1..Len(xs) : xs[i] = ys[i]

\* C30: maintenanceHistory is append-only: after any operation on a property
\* (add maintenance request, generic property update, assign, remove), the
\* property's previous maintenanceHistory is a prefix of its new
\* maintenanceHistory, and add-maintenance-request appends exactly one entry
\* with sub-status pending.
C30_HistoryAppendOnly ==
    [][\A p \in DOMAIN properties :
          /\ IsPrefix(properties[p].maintenanceHistory, properties'[p].maintenanceHistory)
          /\ (last'.op = "addMaintenance" /\ last'.kind = "Ok" /\ last'.property = p)
                => /\ Len(properties'[p].maintenanceHistory)
                         = Len(properties[p].maintenanceHistory) + 1
                   /\ properties'[p].maintenanceHistory[Len(properties'[p].maintenanceHistory)].status
                         = "pending"]_vars

\* C30, where the code departs from the claim: a generic update has replaced
\* the history by one no sequence of appends produces, a single record
\* already completed, on a property with a tenant's lease in place
C30_HistoryReplaced ==
    /\ last.op = "updateProperty"
    /\ last.kind = "Ok"
    /\ last.property \in DOMAIN properties
    /\ properties[last.property].maintenanceHistory = <<CompletedRecord>>
    /\ properties[last.property].status = "occupied"

\* C30 for the operations other than the generic update
C30_AppendOnlyButUpdate ==
    [][last'.op # "updateProperty"
          => \A p \in DOMAIN properties :
                IsPrefix(properties[p].maintenanceHistory,
                         properties'[p].maintenanceHistory)]_vars

(***************************************************************************)
(* Every modelled endpoint of the four routers, called without a token,    *)
(* with bodies that pass the validators and bodies that do not.  The       *)
(* admin's requests fill the store and read it.                            *)
(***************************************************************************)
AuthCallers == {"a1", Anon}

AuthPropertyBodies == {PlainBody, [PlainBody EXCEPT !.status = "bogus"]}

AuthScheduleBodies ==
    {body \in ScheduleBodies :
        /\ body.tenant = "t1"
        /\ body.dueDate = MaxDate
        /\ body.status = Absent
        /\ body.lateFee = 0}

AuthFilter ==
    [status |-> Absent, propertyId |-> BadId, tenantId |-> Absent,
     from |-> NoDate, to |-> NoDate]

NextAuth ==
    \/ \E u \in AuthCallers, valid \in BOOLEAN : CreateProperty(u, valid, PlainBody)
    \/ \E u \in AuthCallers, id \in PropIdInputs : GetProperty(u, id)
    \/ \E id \in PropIdInputs, body \in AuthPropertyBodies : UpdateProperty(Anon, id, body)
    \/ \E id \in PropIdInputs : DeleteProperty(Anon, id)
    \/ \E u \in AuthCallers, id \in PropIdInputs, valid \in BOOLEAN :
          AddMaintenance(u, id, valid)
    \/ \E u \in AuthCallers, id \in TenantIdInputs : GetTenant(u, id)
    \/ \E id \in TenantIdInputs, body \in TenantBodies : UpdateTenant(Anon, id, body)
    \/ \E u \in AuthCallers, p \in PropIdInputs :
          AssignProperty(u, "t1", p, MaxDate, MaxDate)
    \/ \E p \in PropIdInputs : RemoveProperty(Anon, "t1", p)
    \/ \E u \in AuthCallers : ListRentSchedules(u, AuthFilter, 1, DefaultLimit)
    \/ \E u \in AuthCallers, id \in SchedIdInputs : GetRentSchedule(u, id)
    \/ \E u \in AuthCallers, body \in AuthScheduleBodies : CreateRentSchedule(u, body)
    \/ \E id \in SchedIdInputs, body \in AccessUpdateBodies :
          UpdateRentSchedule(Anon, id, body)
    \/ \E id \in SchedIdInputs : DeleteRentSchedule(Anon, id)
    \/ \E body \in BulkAccessBodies : BulkCreate(Anon, body, 0)
    \/ \E u \in AuthCallers :
          ListPayments(u, AuthFilter @@ [paymentMethod |-> Absent], 1, DefaultLimit)
    \/ \E u \in AuthCallers, id \in SchedIdInputs, method \in {"cash", "bogus"} :
          CreatePayment(u, id, MaxAmount, method, Len(payments) + 1, FALSE)

SpecAuth == Init /\ [][NextAuth]_vars

\* C23: every unauthenticated request to any endpoint of the properties,
\* tenants, rent-schedules and payments routers is rejected with Unauthorized
\* (401) before validation and before the handler, and changes nothing.
C23_UnauthenticatedRejected ==
    [][last'.user \notin DOMAIN users
          => /\ last'.kind = "Unauthorized"
             /\ UNCHANGED <<users, properties, propCount, schedules, schedCount, payments>>]_vars

\* C23's case: on a store with a property, a rent schedule and a payment, a
\* request without a token whose body the validators would refuse (a
\* property id that is no id) has been answered Unauthorized
C23_Witness ==
    /\ last.user = Anon
    /\ last.op = "createRentSchedule"
    /\ last.property = BadId
    /\ last.kind = "Unauthorized"
    /\ DOMAIN properties # {}
    /\ DOMAIN schedules # {}
    /\ Len(payments) > 0

(***************************************************************************)
(* The landlord of a property: POST /api/properties and PUT                *)
(* /api/properties/:id with bodies that name a landlord of any kind.       *)
(***************************************************************************)
\* the landlord values a body may carry: none, a landlord, a tenant, an
\* admin, an id of no user
LandlordBodies ==
    [status : {Absent, "maintenance"}, currentTenant : {Absent},
     landlord : {Absent, "l1", "l2", "t1", "a1", Ghost}]

NextLandlord ==
    \/ \E u \in Callers, valid \in BOOLEAN, body \in LandlordBodies :
          CreateProperty(u, valid, body)
    \/ \E u \in Callers, id \in PropIdInputs, body \in LandlordBodies :
          UpdateProperty(u, id, body)
    \/ \E u \in Callers, id \in PropIdInputs : DeleteProperty(u, id)

SpecLandlord == Init /\ [][NextLandlord]_vars

\* C31: in every reachable state every property's landlord field references
\* an existing user whose role is landlord, whatever landlord value a create
\* or update request supplies.
C31_LandlordIsLandlord ==
    \A p \in DOMAIN properties :
        /\ properties[p].landlord \in DOMAIN users
        /\ users[properties[p].landlord].role = "landlord"

\* C31, where the code departs from the claim: the admin's create or
\* update has stored a property whose landlord is no user at all
C31_LandlordIsNoUser ==
    /\ last.user = "a1"
    /\ last.op \in {"createProperty", "updateProperty"}
    /\ last.kind = "Ok"
    /\ \E p \in DOMAIN properties : properties[p].landlord = Ghost

\* C31 for a landlord principal: the property a landlord creates has the
\* creating principal as its landlord, whatever the body names
C31_LandlordCreatesOwn ==
    [][(last'.op = "createProperty" /\ last'.kind = "Ok" /\ Role(last'.user) = "landlord")
          => properties'[last'.property].landlord = last'.user]_vars

(***************************************************************************)
(* The amounts of the stored rent schedules under single creation, bulk    *)
(* creation and update, with negative amounts and late fees in the bodies. *)
(***************************************************************************)
AmountCallers == {"a1", "l1", "t1"}

\* creation bodies for an existing property, tenant t1, one due date
AmountBodies ==
    {body \in ScheduleBodies :
        /\ body.property \in PropIds
        /\ body.tenant = "t1"
        /\ body.dueDate = MaxDate
        /\ body.status = Absent}

NextAmounts ==
    \/ \E u \in AmountCallers, body \in AmountBodies : CreateRentSchedule(u, body)
    \/ \E u \in AmountCallers, body \in BulkAccessBodies : BulkCreate(u, body, 0)
    \/ \E u \in AmountCallers, id \in SchedIds, body \in ScheduleUpdateBodies :
          UpdateRentSchedule(u, id, body)

SpecAmounts == InitOccupancy /\ [][NextAmounts]_vars

\* C32: in every reachable state every persisted rent schedule has
\* amount >= 0 and lateFee >= 0, whatever values single creation, bulk
\* creation and schedule update requests supply.
C32_AmountsNonNegative ==
    \A id \in DOMAIN schedules :
        schedules[id].amount >= 0 /\ schedules[id].lateFee >= 0

\* C32, where the code departs from the claim: a stored rent schedule has
\* a negative lateFee
C32_NegativeLateFee ==
    /\ last.kind = "Ok"
    /\ last.op \in {"createRentSchedule", "updateRentSchedule"}
    /\ \E id \in DOMAIN schedules : schedules[id].lateFee < 0

\* C32 for the amount alone: no stored rent schedule has a negative amount
C32_AmountNonNegative ==
    \A id \in DOMAIN schedules : schedules[id].amount >= 0

(***************************************************************************)
(* Two racing payments of different outcome on one schedule, under         *)
(* SpecPayRace.                                                            *)
(***************************************************************************)
\* two different requests on the same schedule have both been answered with
\* success, one with the schedule's amount or more and one with less, and no
\* payment of another request was recorded
FullAndPartial(r1, r2) ==
    /\ r1 # r2
    /\ \A r \in Racers : reqs[r].pc = "done"
    /\ reqs[r1].kind = "Ok" /\ reqs[r2].kind = "Ok"
    /\ \A r \in Racers \ {r1, r2} : reqs[r].kind # "Ok"
    /\ reqs[r1].schedule = reqs[r2].schedule
    /\ reqs[r1].amount >= schedules[reqs[r1].schedule].amount
    /\ reqs[r2].amount > 0
    /\ reqs[r2].amount < schedules[reqs[r2].schedule].amount

\* C33: when two recordPayment calls on the same schedule run concurrently
\* with different outcomes (one with amount >= schedule.amount, one with
\* 0 < amount < schedule.amount), under every interleaving the schedule's
\* final status is the one derived from the payment that was persisted last.
C33_LastPaymentDecides ==
    \A r1, r2 \in Racers :
        FullAndPartial(r1, r2)
            => LET id == reqs[r1].schedule
               IN  schedules[id].status
                      = StatusFor(payments[MostRecent(PaymentsOf(id))].amount, schedules[id])

\* C33, where the code departs from the claim: the partial payment was
\* persisted last and the schedule is paid
C33_PaidAfterPartial ==
    \E r1, r2 \in Racers :
        /\ FullAndPartial(r1, r2)
        /\ payments[MostRecent(PaymentsOf(reqs[r1].schedule))].amount = reqs[r2].amount
        /\ schedules[reqs[r1].schedule].status = "paid"

(***************************************************************************)
(* recordPayment step by step while PUT /api/rent-schedules/:id changes    *)
(* the amount of the schedule.                                             *)
(***************************************************************************)
\* update bodies that carry a valid amount and nothing else
AmountUpdateBodies ==
    [status : {Absent}, hasAmount : {TRUE}, amount : {1, MaxAmount},
     hasLateFee : {FALSE}, lateFee : {-1}]

NextPayStale ==
    \/ NextPayRace
    \/ \E id \in SchedIds, body \in AmountUpdateBodies : UpdateRentSchedule("a1", id, body)

SpecPayStale == InitPayRace /\ [][NextPayStale]_vars

\* request r writes the status in this step
StatusWrite(r) == reqs[r].pc = "update" /\ reqs'[r].pc = "respond"

\* C34: the status recordPayment writes agrees with the settlement rule
\* applied to the payment amount and the schedule amount stored at the time
\* of the write, also when a schedule update changing schedule.amount is
\* interleaved between recordPayment's read and its status write.
C34_NoStaleAmount ==
    [][\A r \in Racers :
          StatusWrite(r)
             => schedules'[reqs[r].schedule].status
                   = StatusFor(reqs[r].amount, schedules'[reqs[r].schedule])]_vars

\* C34, where the code departs from the claim: a request has written its
\* status, no other request has reached its write, the amount stored is not
\* the amount the request read, and the status is not the one the rule gives
\* for the stored amount
C34_StatusFromStaleAmount ==
    \E r \in Racers :
        /\ reqs[r].pc = "respond"
        /\ \A r2 \in Racers \ {r} : reqs[r2].pc \in {"find", "save"}
        /\ reqs[r].seen.amount # schedules[reqs[r].schedule].amount
        /\ schedules[reqs[r].schedule].status
              # StatusFor(reqs[r].amount, schedules[reqs[r].schedule])

(***************************************************************************)
(* POST /api/rent-schedules/bulk, one loop iteration per step.             *)
(***************************************************************************)
\* the longest batch the dates of the model give: one schedule a month
MaxBatch == (12 * MaxYears) + 1

\* the request bodies of the loop: start days that overflow short months, at
\* the turn of the year and around the leap day
LoopBodies ==
    {body \in BulkBodies :
        /\ Month(body.startDate) \in {1, 2, 12}
        /\ Day(body.endDate) = 28}

BulkLoopRequests ==
    {[pc |-> "find", user |-> "a1", body |-> body, zone |-> zone, current |-> NoDate,
      endDate |-> NoDate, dates |-> << >>, kind |-> "none"] :
        body \in LoopBodies, zone \in Zones}

InitBulkLoop ==
    /\ users = InitialUsers
    /\ properties = [p \in PropIds |-> FreshProperty("l1")]
    /\ propCount = MaxProps
    /\ schedules = << >>
    /\ schedCount = 0
    /\ payments = << >>
    /\ last = NoRequest
    /\ reqs \in [{1} -> BulkLoopRequests]

\* the handler up to `let currentDate = new Date(startDate)`
BulkFind(r) ==
    /\ reqs[r].pc = "find"
    /\ IF reqs[r].body.property \notin DOMAIN properties THEN Respond(r, "NotFound")
       ELSE IF LandlordDenied(reqs[r].user, properties[reqs[r].body.property])
       THEN Respond(r, "Forbidden")
       ELSE reqs' = [reqs EXCEPT ![r].pc = "loop",
                                 ![r].current = ToLocal(reqs[r].body.startDate, reqs[r].zone),
                                 ![r].endDate = ToLocal(reqs[r].body.endDate, reqs[r].zone)]
    /\ UNCHANGED <<users, properties, propCount, schedules, schedCount, payments, last>>

\* one iteration of `while (currentDate <= end)`: the push and the switch
BulkIterate(r) ==
    /\ reqs[r].pc = "loop"
    /\ reqs[r].current <= reqs[r].endDate
    /\ Len(reqs[r].dates) < MaxBatch
    /\ reqs' = [reqs EXCEPT ![r].dates = Append(@, reqs[r].current),
                            ![r].current = Advance(reqs[r].current, reqs[r].body.frequency)]
    /\ UNCHANGED <<users, properties, propCount, schedules, schedCount, payments, last>>

\* the loop's exit, RentSchedule.insertMany(schedulesData) and the response
BulkInsertMany(r) ==
    LET dates == reqs[r].dates
        ids == (schedCount + 1)..(schedCount + Len(dates))
    IN  /\ reqs[r].pc = "loop"
        /\ reqs[r].current > reqs[r].endDate
        /\ schedules' = [id \in ids |->
                            BulkSchedule(reqs[r].body, ToUTC(dates[id - schedCount], reqs[r].zone))]
                        @@ schedules
        /\ schedCount' = schedCount + Len(dates)
        /\ Respond(r, "Ok")
        /\ UNCHANGED <<users, properties, propCount, payments, last>>

NextBulkLoop ==
    \E r \in DOMAIN reqs :
        \/ BulkFind(r)
        \/ BulkIterate(r)
        \/ BulkInsertMany(r)

SpecBulkLoop == InitBulkLoop /\ [][NextBulkLoop]_vars

\* the handler runs on: a request that can take a step takes one
SpecBulkLoopFair == SpecBulkLoop /\ WF_vars(NextBulkLoop)

\* C35: bulk generation terminates for every startDate, every endDate and
\* every frequency in {monthly, quarterly, yearly}: the request always
\* reaches a response.
C35_BulkTerminates == <>(\A r \in DOMAIN reqs : reqs[r].pc = "done")

\* C35, the step behind it: each loop iteration strictly advances currentDate
C35_IterationAdvances ==
    [][\A r \in DOMAIN reqs :
          (reqs[r].pc = "loop" /\ reqs'[r].pc = "loop")
             => reqs'[r].current > reqs[r].current]_vars

\* C35's case: a request starting on the 31st has been answered after a loop
\* of several iterations
C35_Witness ==
    \E r \in DOMAIN reqs :
        /\ reqs[r].pc = "done"
        /\ reqs[r].kind = "Ok"
        /\ Day(reqs[r].body.startDate) = 31
        /\ Len(reqs[r].dates) > 2
        /\ Len(reqs[r].dates) = schedCount

(***************************************************************************)
(* The status of a rent schedule under creation, update and payment.       *)
(***************************************************************************)
\* creation bodies for tenant t1, with and without a status
StatusBodies ==
    {body \in ScheduleBodies :
        /\ body.property \in PropIds
        /\ body.tenant = "t1"
        /\ body.amount = MaxAmount
        /\ body.dueDate = MaxDate
        /\ body.lateFee = 0}

\* update bodies that carry at most a status
StatusUpdateBodies ==
    {body \in ScheduleUpdateBodies : ~body.hasAmount /\ ~body.hasLateFee}

NextStatus ==
    \/ \E u \in AmountCallers, body \in StatusBodies : CreateRentSchedule(u, body)
    \/ \E u \in AmountCallers, id \in SchedIds, body \in StatusUpdateBodies :
          UpdateRentSchedule(u, id, body)
    \/ \E u \in AmountCallers, id \in SchedIds, amount \in {0, 1, MaxAmount} :
          CreatePayment(u, id, amount, "cash", Len(payments) + 1, FALSE)

SpecStatus == InitOccupancy /\ [][NextStatus]_vars

\* C36: in every reachable state, a rent schedule whose status is paid or
\* partial has at least one persisted Payment with amount > 0 referencing
\* it: the two statuses arise only through settlement of a recorded payment.
C36_PaidOnlyByPayment ==
    \A id \in DOMAIN schedules :
        schedules[id].status \in {"paid", "partial"}
            => \E x \in PaymentsOf(id) : payments[x].amount > 0

\* C36, where the code departs from the claim: the tenant's update has set a
\* schedule without any payment to paid
C36_PaidWithoutPayment ==
    /\ last.op = "updateRentSchedule"
    /\ last.user = "t1"
    /\ last.kind = "Ok"
    /\ schedules[last.schedule].status = "paid"
    /\ PaymentsOf(last.schedule) = {}

\* C36 for the payments on schedules of a positive amount: no step of
\* recordPayment leaves a schedule paid or partial that was neither before,
\* unless the payment's amount is positive
C36_SettlementNeedsPayment ==
    [][\A id \in DOMAIN schedules :
          (/\ last'.op = "createPayment"
           /\ schedules'[id].status \in {"paid", "partial"}
           /\ schedules[id].status \notin {"paid", "partial"})
              => \E x \in DOMAIN payments' :
                    payments'[x].rentSchedule = id /\ payments'[x].amount > 0]_vars

(***************************************************************************)
(* References between the collections under the two deletes and            *)
(* recordPayment.                                                          *)
(***************************************************************************)
RefCallers == {"a1", "t1", "t2"}

NextRefs ==
    \/ \E u \in RefCallers, id \in SchedIds, amount \in {1, MaxAmount} :
          CreatePayment(u, id, amount, "cash", Len(payments) + 1, FALSE)
    \/ \E u \in RefCallers, id \in PropIds : DeleteProperty(u, id)
    \/ \E u \in RefCallers, id \in SchedIds : DeleteRentSchedule(u, id)

SpecRefs == InitPay /\ [][NextRefs]_vars

\* the last request was recordPayment by the tenant of an existing schedule
\* and ended in the generic failure while the schedule's property is gone
TenantPaymentFailed ==
    /\ last.op = "createPayment"
    /\ last.schedule \in DOMAIN schedules
    /\ last.user = schedules[last.schedule].tenant
    /\ last.kind = "ServerError"
    /\ schedules[last.schedule].property \notin DOMAIN properties

\* C37: in every reachable state every rent schedule's property reference
\* and every payment's rentSchedule reference resolve to an existing record,
\* so recordPayment by the schedule's tenant on an existing schedule never
\* ends in the generic internal failure because the property is gone.
C37_ReferencesResolve ==
    /\ \A id \in DOMAIN schedules : schedules[id].property \in DOMAIN properties
    /\ \A x \in DOMAIN payments : payments[x].rentSchedule \in DOMAIN schedules
    /\ ~TenantPaymentFailed

\* C37, where the code departs from the claim: a payment refers to a deleted
\* rent schedule, and the tenant's payment on an existing schedule has failed
\* because its property is deleted
C37_DanglingReferences ==
    /\ \E x \in DOMAIN payments : payments[x].rentSchedule \notin DOMAIN schedules
    /\ TenantPaymentFailed

====
